---- MODULE Spec2Model ----
(***************************************************************************)
(* Transit-Reliability-Score: the GTFS-RT ingestion worker                 *)
(* (fetch -> decode -> normalize -> idempotent write, per feed type, run   *)
(* once or on a timer) and the schedule matching engine.                   *)
(*                                                                         *)
(* Conventions.  A nullable value is <<>> (None) or <<v>> (the value v).   *)
(* A timestamp is a number of seconds.  An exception text is a record      *)
(* [tag, len]: what was raised and how many characters str(exc) has.       *)
(* The audit column recorded_at (wall clock of normalization) is left out  *)
(* of the rows: nothing reads it.                                          *)
(***************************************************************************)
EXTENDS Integers, Sequences, FiniteSets, TLC

None == <<>>
Some(v) == <<v>>
IsNone(o) == o = <<>>
Val(o) == o[1]

Min(a, b) == IF a <= b THEN a ELSE b

Range(s) == { s[i] : i \in 1..Len(s) }

(***************************************************************************)
(* Bounds of the model.                                                    *)
(***************************************************************************)
\* poll cycles one behaviour may start
MaxPolls == 2
\* polling tasks one behaviour may create
MaxTasks == 2
MaxRuns == 2

(***************************************************************************)
(* Configuration (config.py), scaled down where the value is a size.       *)
(***************************************************************************)
\* gtfs_rt_max_retries
MaxRetries == 3
\* gtfs_rt_batch_size
BatchSize == 2
\* error_message[:500]
ErrMsgLimit == 500
\* gtfs_rt_backoff_base
BackoffBase == 2
\* stale_feed_threshold_sec
StaleThreshold == 120
\* the last second datetime.fromtimestamp accepts (year 9999 in the code;
\* scaled to the model's clock)
MaxDatetimeTs == 100000

(***************************************************************************)
(* worker.py: feed types, in the order of self._feed_urls.                 *)
(***************************************************************************)
FEED_TRIP_UPDATES == "trip_updates"
FEED_VEHICLE_POSITIONS == "vehicle_positions"
FEED_SERVICE_ALERTS == "service_alerts"

FeedOrder == << FEED_TRIP_UPDATES, FEED_VEHICLE_POSITIONS, FEED_SERVICE_ALERTS >>
FeedTypes == Range(FeedOrder)

TableOf(feed_type) ==
    CASE feed_type = FEED_TRIP_UPDATES -> "rt_trip_updates"
      [] feed_type = FEED_VEHICLE_POSITIONS -> "rt_vehicle_positions"
      [] feed_type = FEED_SERVICE_ALERTS -> "rt_alerts"

Tables == { TableOf(f) : f \in FeedTypes }

(***************************************************************************)
(* normalizer.py                                                           *)
(***************************************************************************)
SCHEDULE_RELATIONSHIP(code) ==
    CASE code = 0 -> "SCHEDULED"
      [] code = 1 -> "ADDED"
      [] code = 2 -> "UNSCHEDULED"
      [] code = 3 -> "CANCELED"
      [] code = 5 -> "REPLACEMENT"
      [] OTHER -> "SCHEDULED"

VEHICLE_STOP_STATUS(code) ==
    CASE code = 0 -> "INCOMING_AT"
      [] code = 1 -> "STOPPED_AT"
      [] code = 2 -> "IN_TRANSIT_TO"
      [] OTHER -> ""

CAUSE_MAP(code) ==
    CASE code = 1 -> "UNKNOWN_CAUSE"
      [] code = 2 -> "OTHER_CAUSE"
      [] code = 3 -> "TECHNICAL_PROBLEM"
      [] code = 4 -> "STRIKE"
      [] code = 5 -> "DEMONSTRATION"
      [] code = 6 -> "ACCIDENT"
      [] code = 7 -> "HOLIDAY"
      [] code = 8 -> "WEATHER"
      [] code = 9 -> "MAINTENANCE"
      [] code = 10 -> "CONSTRUCTION"
      [] code = 11 -> "POLICE_ACTIVITY"
      [] code = 12 -> "MEDICAL_EMERGENCY"
      [] OTHER -> "UNKNOWN_CAUSE"

EFFECT_MAP(code) ==
    CASE code = 1 -> "NO_SERVICE"
      [] code = 2 -> "REDUCED_SERVICE"
      [] code = 3 -> "SIGNIFICANT_DELAYS"
      [] code = 4 -> "DETOUR"
      [] code = 5 -> "ADDITIONAL_SERVICE"
      [] code = 6 -> "MODIFIED_SERVICE"
      [] code = 7 -> "OTHER_EFFECT"
      [] code = 8 -> "UNKNOWN_EFFECT"
      [] code = 9 -> "STOP_MOVED"
      [] code = 10 -> "NO_EFFECT"
      [] code = 11 -> "ACCESSIBILITY_ISSUE"
      [] OTHER -> "UNKNOWN_EFFECT"

\* first translation text of a TranslatedString (a sequence of texts), or ""
GetTranslation(translated_string) ==
    IF Len(translated_string) > 0 THEN translated_string[1] ELSE ""

\* the rows of one TripUpdate entity: one per stop_time_update with a stop_id
RECURSIVE StuRows(_, _, _)
StuRows(tu, feed_ts, i) ==
    IF i > Len(tu.stop_time_update) THEN << >>
    ELSE LET stu == tu.stop_time_update[i]
             row == [ trip_id |-> tu.trip_id,
                      route_id |-> tu.route_id,
                      stop_id |-> stu.stop_id,
                      stop_sequence |-> stu.stop_sequence,
                      arrival_delay |->
                          IF IsNone(stu.arrival) THEN None
                          ELSE Some(Val(stu.arrival).delay),
                      arrival_time |->
                          IF ~IsNone(stu.arrival) /\ Val(stu.arrival).time # 0
                          THEN Some(Val(stu.arrival).time) ELSE None,
                      departure_delay |->
                          IF IsNone(stu.departure) THEN None
                          ELSE Some(Val(stu.departure).delay),
                      departure_time |->
                          IF ~IsNone(stu.departure) /\ Val(stu.departure).time # 0
                          THEN Some(Val(stu.departure).time) ELSE None,
                      schedule_relationship |->
                          SCHEDULE_RELATIONSHIP(tu.schedule_relationship),
                      feed_timestamp |-> feed_ts ]
         IN  (IF stu.stop_id = "" THEN << >> ELSE << row >>)
                 \o StuRows(tu, feed_ts, i + 1)

RECURSIVE TripUpdateRows(_, _, _)
TripUpdateRows(entity, feed_ts, i) ==
    IF i > Len(entity) THEN << >>
    ELSE LET e == entity[i]
         IN  (IF e.kind # "trip_update" \/ e.trip_id = "" THEN << >>
              ELSE StuRows(e, feed_ts, 1))
                 \o TripUpdateRows(entity, feed_ts, i + 1)

normalize_trip_updates(feed) ==
    IF feed.timestamp = 0 THEN << >>
    ELSE TripUpdateRows(feed.entity, feed.timestamp, 1)

RECURSIVE VehicleRows(_, _, _)
VehicleRows(entity, feed_ts, i) ==
    IF i > Len(entity) THEN << >>
    ELSE LET vp == entity[i]
             vehicle_id == IF vp.kind = "vehicle" /\ ~IsNone(vp.vehicle)
                           THEN Val(vp.vehicle) ELSE ""
             hasTrip == vp.kind = "vehicle" /\ ~IsNone(vp.trip)
             hasPos == vp.kind = "vehicle" /\ ~IsNone(vp.position)
             lat == IF hasPos THEN Val(vp.position).latitude ELSE 0
             lon == IF hasPos THEN Val(vp.position).longitude ELSE 0
             row == [ vehicle_id |-> vehicle_id,
                      trip_id |-> IF hasTrip THEN Val(vp.trip).trip_id ELSE "",
                      route_id |-> IF hasTrip THEN Val(vp.trip).route_id ELSE "",
                      latitude |-> lat,
                      longitude |-> lon,
                      bearing |-> IF hasPos /\ Val(vp.position).bearing # 0
                                  THEN Some(Val(vp.position).bearing) ELSE None,
                      speed |-> IF hasPos /\ Val(vp.position).speed # 0
                                THEN Some(Val(vp.position).speed) ELSE None,
                      current_stop_sequence |->
                          IF vp.current_stop_sequence # 0
                          THEN Some(vp.current_stop_sequence) ELSE None,
                      current_status |-> VEHICLE_STOP_STATUS(vp.current_status),
                      feed_timestamp |-> feed_ts ]
         IN  (IF vp.kind # "vehicle" \/ vehicle_id = "" \/ (lat = 0 /\ lon = 0)
              THEN << >> ELSE << row >>)
                 \o VehicleRows(entity, feed_ts, i + 1)

normalize_vehicle_positions(feed) ==
    IF feed.timestamp = 0 THEN << >>
    ELSE VehicleRows(feed.entity, feed.timestamp, 1)

\* the rows of one Alert entity: one per informed entity, one if it has none
RECURSIVE InformedRows(_, _, _, _)
InformedRows(e, informed_entities, feed_ts, i) ==
    IF i > Len(informed_entities) THEN << >>
    ELSE LET ie == informed_entities[i]
             period == e.active_period
             row == [ alert_id |-> e.id,
                      cause |-> CAUSE_MAP(e.cause),
                      effect |-> EFFECT_MAP(e.effect),
                      header_text |-> GetTranslation(e.header_text),
                      description_text |-> GetTranslation(e.description_text),
                      active_period_start |->
                          IF Len(period) > 0 /\ period[1].start # 0
                          THEN Some(period[1].start) ELSE None,
                      active_period_end |->
                          IF Len(period) > 0 /\ period[1].end # 0
                          THEN Some(period[1].end) ELSE None,
                      informed_route_id |-> IF IsNone(ie) THEN "" ELSE Val(ie).route_id,
                      informed_stop_id |-> IF IsNone(ie) THEN "" ELSE Val(ie).stop_id,
                      informed_trip_id |->
                          IF IsNone(ie) \/ IsNone(Val(ie).trip) THEN ""
                          ELSE Val(Val(ie).trip),
                      feed_timestamp |-> feed_ts ]
         IN  << row >> \o InformedRows(e, informed_entities, feed_ts, i + 1)

\* list(alert.informed_entity) if alert.informed_entity else [None]
InformedEntities(e) ==
    IF Len(e.informed_entity) > 0
    THEN [ i \in 1..Len(e.informed_entity) |-> Some(e.informed_entity[i]) ]
    ELSE << None >>

RECURSIVE AlertRows(_, _, _)
AlertRows(entity, feed_ts, i) ==
    IF i > Len(entity) THEN << >>
    ELSE LET e == entity[i]
         IN  (IF e.kind # "alert" THEN << >>
              ELSE InformedRows(e, InformedEntities(e), feed_ts, 1))
                 \o AlertRows(entity, feed_ts, i + 1)

normalize_alerts(feed) ==
    IF feed.timestamp = 0 THEN << >>
    ELSE AlertRows(feed.entity, feed.timestamp, 1)

\* worker.py _normalize_feed
NormalizeFeed(feed_type, feed) ==
    CASE feed_type = FEED_TRIP_UPDATES -> normalize_trip_updates(feed)
      [] feed_type = FEED_VEHICLE_POSITIONS -> normalize_vehicle_positions(feed)
      [] feed_type = FEED_SERVICE_ALERTS -> normalize_alerts(feed)
      [] OTHER -> << >>

(***************************************************************************)
(* Feed payloads the remote endpoints may serve.  A response is            *)
(*   [http, hash, size, malformed, timestamp, entity]:                     *)
(* http "error" is an HTTP status error, "unreachable" a transport error;   *)
(* size 0 an empty body; hash stands for the SHA-256 of the body; timestamp *)
(* and entity                                                              *)
(* are the FeedMessage the bytes decode to when they are not malformed.    *)
(***************************************************************************)
Stu(stop_id, stop_sequence, arrival) ==
    [ stop_id |-> stop_id, stop_sequence |-> stop_sequence,
      arrival |-> arrival, departure |-> None ]

TripUpdate(trip_id, rel, stus) ==
    [ kind |-> "trip_update", trip_id |-> trip_id, route_id |-> "R1",
      schedule_relationship |-> rel, stop_time_update |-> stus ]

Vehicle(vehicle, position) ==
    [ kind |-> "vehicle", vehicle |-> vehicle, trip |-> None,
      position |-> position, current_stop_sequence |-> 0, current_status |-> 2 ]

Alert(id, informed) ==
    [ kind |-> "alert", id |-> id, cause |-> 6, effect |-> 4,
      header_text |-> << "Detour" >>, description_text |-> << >>,
      active_period |-> << >>, informed_entity |-> informed ]

Body(hash, timestamp, entity) ==
    [ http |-> "ok", hash |-> hash, size |-> 1 + Len(entity), malformed |-> FALSE,
      timestamp |-> timestamp, entity |-> entity ]

HttpError == [ http |-> "error", hash |-> "", size |-> 0, malformed |-> FALSE,
               timestamp |-> 0, entity |-> << >> ]

TransportError == [ http |-> "unreachable", hash |-> "", size |-> 0,
                    malformed |-> FALSE, timestamp |-> 0, entity |-> << >> ]

EmptyBody == [ http |-> "ok", hash |-> "", size |-> 0, malformed |-> FALSE,
               timestamp |-> 0, entity |-> << >> ]

Garbage == [ http |-> "ok", hash |-> "garbage", size |-> 3, malformed |-> TRUE,
             timestamp |-> 0, entity |-> << >> ]

\* wall clock at the start of a behaviour, and feed header timestamps around it
Clock0 == 1000
TsFresh == 990
TsOld == 800

Catalog(feed_type) ==
    CASE feed_type = FEED_TRIP_UPDATES ->
           { HttpError, EmptyBody, Garbage,
             Body("tu0", 0, << TripUpdate("T1", 0, << Stu("S1", 1, None) >>) >>),
             Body("tu1", TsFresh,
                  << TripUpdate("T1", 0,
                         << Stu("S1", 1, Some([delay |-> 60, time |-> 0])),
                            Stu("S2", 2, None) >>) >>),
             Body("tu2", TsFresh,
                  << TripUpdate("", 0, << Stu("S9", 1, None) >>),
                     TripUpdate("T1", 0,
                         << Stu("S1", 1, None), Stu("S1", 5, None),
                            Stu("", 3, None), Stu("S3", 4, None) >>) >>),
             Body("tu9", MaxDatetimeTs + 1,
                  << TripUpdate("T1", 0, << Stu("S1", 1, None) >>) >>),
             Body("tu3", TsOld, << TripUpdate("T2", 3, << Stu("S1", 1, None) >>) >>) }
      [] feed_type = FEED_VEHICLE_POSITIONS ->
           { HttpError, Garbage,
             Body("vp1", TsFresh,
                  << Vehicle(Some("V1"), Some([latitude |-> 49, longitude |-> -123,
                                               bearing |-> 0, speed |-> 7])),
                     Vehicle(Some("V2"), None),
                     Vehicle(None, Some([latitude |-> 49, longitude |-> -123,
                                         bearing |-> 90, speed |-> 0])) >>),
             Body("vp2", TsOld,
                  << Vehicle(Some("V1"), Some([latitude |-> 50, longitude |-> -123,
                                               bearing |-> 0, speed |-> 0])) >>) }
      [] feed_type = FEED_SERVICE_ALERTS ->
           { HttpError, Garbage,
             Body("sa1", TsFresh,
                  << Alert("A1", << [route_id |-> "R1", stop_id |-> "S1", trip |-> None],
                                    [route_id |-> "R2", stop_id |-> "", trip |-> Some("T1")] >>),
                     Alert("A2", << >>) >>),
             Body("sa2", TsFresh,
                  << Alert("A1", << [route_id |-> "R1", stop_id |-> "S1", trip |-> Some("T7")] >>) >>) }

(***************************************************************************)
(* writer.py                                                               *)
(***************************************************************************)
\* _TABLE_DEFS[table]["conflict_cols"]: the dedup key of a normalized row
ConflictKey(table, row) ==
    CASE table = "rt_trip_updates" ->
           << row.trip_id, row.stop_id, row.feed_timestamp >>
      [] table = "rt_vehicle_positions" ->
           << row.vehicle_id, row.feed_timestamp >>
      [] table = "rt_alerts" ->
           << row.alert_id, row.informed_route_id, row.informed_stop_id,
              row.feed_timestamp >>

MaxId(stored) ==
    IF stored = {} THEN 0
    ELSE CHOOSE n \in { s.id : s \in stored } : \A s \in stored : s.id <= n

\* a plain INSERT of the batch, without ON CONFLICT
InsertAll(table, stored, taken, batch, i) ==
    { [ id |-> MaxId(taken) + j, row |-> batch[j] ] : j \in i..Len(batch) }

\* INSERT INTO table VALUES batch ON CONFLICT (conflict cols) DO NOTHING, on a
\* table holding `stored` ([id, row] records): the rows the statement adds.
\* taken: the ids in use, in the table or in an open transaction.
RECURSIVE InsertDoNothing(_, _, _, _, _)
InsertDoNothing(table, stored, taken, batch, i) ==
    IF i > Len(batch) THEN {}
    ELSE LET row == batch[i]
             conflict == \E s \in stored :
                             ConflictKey(table, s.row) = ConflictKey(table, row)
             new == [ id |-> MaxId(taken) + 1, row |-> row ]
         IN  IF conflict THEN InsertDoNothing(table, stored, taken, batch, i + 1)
             ELSE { new } \cup InsertDoNothing(table, stored \cup { new },
                                                taken \cup { new }, batch, i + 1)

\* rows[batch_start : batch_start + self.batch_size], batch_start 0-based
BatchAt(rows, batch_start) ==
    SubSeq(rows, batch_start + 1, Min(batch_start + BatchSize, Len(rows)))

\* error_message[:500] if error_message else ""
Truncate(error_message) ==
    [ error_message EXCEPT !.len = Min(error_message.len, ErrMsgLimit) ]

NoText == [ tag |-> "", len |-> 0 ]

\* an upsert that takes every column from the call's values
UpsertReplacesAll(old, now, status, entity_count, feed_hash, error_message) ==
    [ last_success_at |-> IF status = "ok" THEN Some(now) ELSE None,
      last_attempt_at |-> Some(now),
      status |-> status,
      error_message |-> Truncate(error_message),
      feed_hash |-> feed_hash,
      entity_count |-> entity_count ]

\* update_ingest_meta's INSERT ... ON CONFLICT (feed_type) DO UPDATE, on the
\* feed type's rt_ingest_meta row (`old`, None when there is none yet)
UpsertIngestMeta(old, now, status, entity_count, feed_hash, error_message) ==
    LET excluded == [ last_success_at |-> IF status = "ok" THEN Some(now) ELSE None,
                      last_attempt_at |-> Some(now),
                      status |-> status,
                      error_message |-> Truncate(error_message),
                      feed_hash |-> feed_hash,
                      entity_count |-> entity_count ]
    IN  IF IsNone(old) THEN excluded
        ELSE [ excluded EXCEPT !.last_success_at =
                   IF excluded.status = "ok" THEN excluded.last_attempt_at
                   ELSE Val(old).last_success_at ]

(***************************************************************************)
(* State.                                                                  *)
(***************************************************************************)
VARIABLES
    env,            \* the surroundings: served, what each feed endpoint may
                    \* answer; faults, the database calls of each feed type
                    \* that may fail; db_errors, the texts of such failures;
                    \* polls and tasks, how many cycles and polling tasks;
                    \* cycle_faults, whether run_once may raise outside its
                    \* feeds; tick, by how much the clock advances between
                    \* two readings
    db,             \* committed rows of the three raw tables: sets of [id, row]
    meta,           \* rt_ingest_meta: feed type -> None or its row
    clock,          \* wall clock
    calls,          \* history: feed type -> None or the last completed
                    \* update_ingest_meta call (its time, status and text) with
                    \* the time of the last completed "ok" call
    running,        \* GtfsRtWorker._running
    task,           \* GtfsRtWorker._task: 0 (None) or a task id
    poll_count,     \* GtfsRtWorker._poll_count
    last_poll_at,   \* GtfsRtWorker._last_poll_at
    proc,           \* the coroutines that run poll cycles: 0 is a direct
                    \* run_once() caller, 1..MaxTasks the polling tasks
    cancelled,      \* tasks with a cancellation requested and not yet delivered
    stopping,       \* tasks a suspended stop() call is awaiting
    op,             \* history: the last step of a start() or stop() call, and
                    \* a bit that flips at each such step
    stop_times,     \* the stop_times table: [trip_id, stop_id, stop_sequence,
                    \* sched_arrival_sec] records
    matched_arrivals,   \* the matched_arrivals table: its rows and the last
                    \* value drawn from its id sequence
    match,          \* the MatchingEngine run under way or last completed
    calc            \* the last call of a function of matching/engine.py made
                    \* on its own: its name and what it returned

dbvars == << db, meta, clock, calls >>
mvars == << stop_times, matched_arrivals, match >>
wvars == << running, task, poll_count, last_poll_at, proc, cancelled, stopping >>
vars == << env, db, meta, clock, calls, running, task, poll_count, last_poll_at, proc,
           cancelled, stopping, op, stop_times, matched_arrivals, match, calc >>

API == 0
TaskIds == 1..MaxTasks
Procs == { API } \cup TaskIds

Stages == { "fetch", "decode", "normalize", "write", "meta" }

\* _ingest_feed's initial result
InitResult ==
    [ status |-> "error", entity_count |-> 0, rows_written |-> 0,
      stale |-> FALSE, error |-> None ]

\* A coroutine's local state.  pc: where it is suspended.
\*   idle      no call in flight (the direct caller)
\*   new       a polling task created and not yet run
\*   fetch     in client.get of attempt `attempt`
\*   backoff   in the fetcher's asyncio.sleep(delay)
\*   exec      in session.execute of the batch at batch_start
\*   commit    in session.commit of that batch
\*   meta      in update_ingest_meta(status="ok")
\*   errmeta   in update_ingest_meta(status="error") of an except clause
\*   sleep     in _poll_loop's asyncio.sleep(poll_interval)
\*   returned  run_once returned `report` to the direct caller
\*   raised    run_once raised to the direct caller
\*   done      the polling task has terminated
\* failed, thrown, began, norm, size0, cycles and crashed are history: the
\* stages of each feed that raised in this cycle and the text raised, the feeds
\* whose ingest began, the rows each feed was normalized to, the table size
\* when the current _batch_insert began, the cycles the coroutine has begun,
\* whether its last run_once raised, whether the cycle under way follows one
\* that raised, and the suspension at which the task was cancelled; tries and
\* sleeps are the history of the current feed's fetch: what each client.get
\* so far answered and the delays slept between them; answer and cause are,
\* for each feed of this cycle, what its last client.get answered and the
\* __cause__ of the FeedFetchError its fetch raised.
Local0 ==
    [ pc |-> "idle", feed |-> 0, attempt |-> 0, delay |-> 0, last_error |-> None,
      tries |-> << >>, sleeps |-> << >>, rows |-> << >>,
      answer |-> [ f \in FeedTypes |-> None ],
      cause |-> [ f \in FeedTypes |-> None ],
      batch_start |-> 0, staged |-> {}, total_inserted |-> 0,
      entity_count |-> 0, feed_hash |-> "", result |-> InitResult,
      exc |-> NoText, report |-> [ f \in FeedTypes |-> None ],
      failed |-> [ f \in FeedTypes |-> {} ],
      thrown |-> [ f \in FeedTypes |-> None ],
      norm |-> [ f \in FeedTypes |-> {} ], began |-> {}, size0 |-> 0,
      cycles |-> 0, crashed |-> FALSE, recovered |-> FALSE, cut |-> "none" ]

FeedOf(l) == FeedOrder[l.feed]

FeedFetchError == [ tag |-> "FeedFetchError", len |-> 45 ]
DecodeError_ == [ tag |-> "DecodeError_", len |-> 36 ]
ValueError == [ tag |-> "ValueError", len |-> 33 ]
\* a database error's text quotes the statement and its parameters
DbErrorShort == [ tag |-> "DBAPIError", len |-> 120 ]
DbErrorLong == [ tag |-> "DBAPIError", len |-> 900 ]

MayFail(l, call) == call \in env.faults[FeedOf(l)]

InCycle(l) == l.pc \in { "fetch", "backoff", "exec", "commit", "meta", "errmeta" }

(***************************************************************************)
(* worker.py: run_once and _ingest_feed, as what a coroutine does between  *)
(* two suspensions.                                                        *)
(***************************************************************************)
\* _ingest_feed of the i-th feed type, up to the fetcher's first client.get
StartFeed(l, i) ==
    [ l EXCEPT !.pc = "fetch", !.feed = i, !.attempt = 0, !.delay = 0,
               !.last_error = None, !.tries = << >>, !.sleeps = << >>,
               !.rows = << >>, !.batch_start = 0, !.staged = {},
               !.total_inserted = 0, !.entity_count = 0, !.feed_hash = "",
               !.result = InitResult, !.exc = NoText,
               !.began = @ \cup { FeedOrder[i] } ]

\* run_once up to the first suspension (the poll counter is the action's)
BeginCycle(l) ==
    StartFeed([ l EXCEPT !.cycles = @ + 1, !.crashed = FALSE,
                         !.recovered = l.crashed,
                         !.report = [ f \in FeedTypes |-> None ],
                         !.failed = [ f \in FeedTypes |-> {} ],
                         !.thrown = [ f \in FeedTypes |-> None ],
                         !.answer = [ f \in FeedTypes |-> None ],
                         !.cause = [ f \in FeedTypes |-> None ],
                         !.norm = [ f \in FeedTypes |-> {} ],
                         !.began = {} ], 1)

\* the except clauses of _ingest_feed: result["error"] = str(exc), then the
\* meta row is updated with status "error"
HandleError(l, exc) ==
    [ l EXCEPT !.pc = "errmeta", !.staged = {},
               !.result = [ @ EXCEPT !.error = Some(exc) ],
               !.exc = exc ]

\* an exception raised inside _ingest_feed's try block by `stage`
Raise(l, exc, stage) ==
    HandleError([ l EXCEPT !.failed = [ @ EXCEPT ![FeedOf(l)] = @ \cup { stage } ],
                           !.thrown = [ @ EXCEPT ![FeedOf(l)] = Some(exc) ] ],
                exc)

\* a loop that a failed feed ends
NextFeedAbort(i, result) ==
    IF i < Len(FeedOrder) /\ result.status = "ok" THEN i + 1 ELSE 0

\* the feed after the i-th in run_once's loop; 0 when the loop is over
NextFeed(i, result) == IF i < Len(FeedOrder) THEN i + 1 ELSE 0

\* _ingest_feed returns: report["feeds"][feed_type] = feed_report, then the
\* next feed, or the end of run_once
FinishFeed(l, p) ==
    LET rep == [ l.report EXCEPT ![FeedOf(l)] = Some(l.result) ]
        nxt == NextFeed(l.feed, l.result)
    IN  IF nxt # 0 THEN StartFeed([ l EXCEPT !.report = rep ], nxt)
        ELSE [ Local0 EXCEPT !.report = rep, !.failed = l.failed,
                             !.thrown = l.thrown, !.norm = l.norm,
                             !.answer = l.answer, !.cause = l.cause,
                             !.began = l.began, !.cycles = l.cycles,
                             !.pc = IF p = API THEN "returned" ELSE "sleep" ]

\* a staleness check that a feed exactly as old as the threshold fails
StaleAtThreshold(feed_ts, now) == feed_ts # 0 /\ now - feed_ts >= StaleThreshold

\* _ingest_feed: `if feed_ts:` and `age_sec > self._stale_threshold`
IsStale(feed_ts, now) == feed_ts # 0 /\ now - feed_ts > StaleThreshold

\* _ingest_feed from the fetched body to the first database suspension:
\* decode, staleness, normalize, and _batch_insert's `if not rows`
AfterFetch(l, resp, now) ==
    IF resp.malformed THEN Raise(l, DecodeError_, "decode")
    ELSE LET feed == [ timestamp |-> resp.timestamp, entity |-> resp.entity ]
             l1 == [ l EXCEPT !.result = [ @ EXCEPT !.entity_count = Len(feed.entity) ],
                              !.entity_count = Len(feed.entity),
                              !.feed_hash = resp.hash ]
         IN  IF feed.timestamp > MaxDatetimeTs
             THEN Raise(l1, ValueError, "normalize")
             ELSE LET stale == IsStale(feed.timestamp, now)
                      rows == NormalizeFeed(FeedOf(l), feed)
                      l2 == [ l1 EXCEPT !.result = [ @ EXCEPT !.stale = stale ],
                                        !.rows = rows, !.batch_start = 0,
                                        !.norm = [ @ EXCEPT ![FeedOf(l)] = Range(rows) ],
                                        !.total_inserted = 0,
                                        !.size0 = Cardinality(db[TableOf(FeedOf(l))]) ]
                  IN  IF rows = << >> THEN [ l2 EXCEPT !.pc = "meta" ]
                      ELSE [ l2 EXCEPT !.pc = "exec" ]

Live(p) == InCycle(proc[p]) /\ p \notin cancelled

\* a fetcher that takes any answered request for data
SucceededEmpty(resp) == resp.http = "ok"

\* fetcher.py fetch: the attempt returns its data
Succeeded(resp) == resp.http = "ok" /\ resp.size > 0

\* fetcher.py fetch: the exception an attempt raises
ErrorOf(resp) ==
    CASE resp.http = "error" -> "HTTPStatusError"
      [] resp.http = "unreachable" -> "RequestError"
      [] OTHER -> "FeedFetchError"

\* a fetcher that tries once more than max_retries allows
RetriesOneMore(attempt) == attempt < MaxRetries

\* fetcher.py fetch: another attempt follows the failed attempt `attempt`
Retries(attempt) == attempt < MaxRetries - 1

\* a backoff that starts at one second
BackoffFromOne(attempt) == BackoffBase ^ attempt

\* fetcher.py fetch: the delay slept after the failed attempt `attempt`
BackoffDelay(attempt) == BackoffBase ^ (attempt + 1)

\* what the history keeps of an attempt's answer
Answer(resp) == [ http |-> resp.http, size |-> resp.size, hash |-> resp.hash ]

\* fetcher.py fetch: one attempt's client.get returns or raises
Fetch(p) ==
    /\ Live(p) /\ proc[p].pc = "fetch"
    /\ \E resp \in env.served[FeedOf(proc[p])] :
          LET l == [ proc[p] EXCEPT !.tries = Append(@, Answer(resp)),
                                    !.answer = [ @ EXCEPT ![FeedOf(proc[p])] =
                                                   Some(Answer(resp)) ] ]
              e == [ l EXCEPT !.last_error = Some(ErrorOf(resp)) ]
          IN  proc' = [ proc EXCEPT ![p] =
                  IF Succeeded(resp)
                  THEN AfterFetch([ l EXCEPT !.last_error = None ], resp, clock)
                  ELSE IF Retries(l.attempt)
                       THEN [ e EXCEPT !.pc = "backoff",
                                       !.delay = BackoffDelay(l.attempt),
                                       !.sleeps = Append(@, BackoffDelay(l.attempt)) ]
                       ELSE Raise([ e EXCEPT !.cause = [ @ EXCEPT ![FeedOf(e)] =
                                                           e.last_error ] ],
                                  FeedFetchError, "fetch") ]
    /\ UNCHANGED << env, calc, mvars, dbvars, running, task, poll_count, last_poll_at,
                    cancelled, stopping, op >>

\* fetcher.py fetch: the backoff sleep elapses, the next attempt begins
Backoff(p) ==
    /\ Live(p) /\ proc[p].pc = "backoff"
    /\ proc' = [ proc EXCEPT ![p] = [ @ EXCEPT !.pc = "fetch",
                                               !.attempt = @ + 1 ] ]
    /\ UNCHANGED << env, calc, mvars, dbvars, running, task, poll_count, last_poll_at,
                    cancelled, stopping, op >>

\* rows staged by the open transactions of the other coroutines in a table
StagedByOthers(p, table) ==
    UNION { IF q # p /\ InCycle(proc[q]) /\ TableOf(FeedOf(proc[q])) = table
            THEN proc[q].staged ELSE {} : q \in Procs }

\* writer.py _batch_insert: session.execute of one batch returns or raises
Exec(p) ==
    /\ Live(p) /\ proc[p].pc = "exec"
    /\ LET l == proc[p]
           table == TableOf(FeedOf(l))
           batch == BatchAt(l.rows, l.batch_start)
           others == StagedByOthers(p, table)
           staged == InsertDoNothing(table, db[table], db[table] \cup others, batch, 1)
       IN  \/ \* the statement waits for a transaction holding one of its keys
              /\ \A i \in 1..Len(batch) : \A s \in others :
                     ConflictKey(table, s.row) # ConflictKey(table, batch[i])
              /\ proc' = [ proc EXCEPT ![p] =
                     [ l EXCEPT !.pc = "commit", !.staged = staged,
                                !.total_inserted = @ + Cardinality(staged) ] ]
           \/ /\ MayFail(l, "exec")
              /\ \E exc \in env.db_errors :
                     proc' = [ proc EXCEPT ![p] = Raise(l, exc, "write") ]
    /\ UNCHANGED << env, calc, mvars, dbvars, running, task, poll_count, last_poll_at,
                    cancelled, stopping, op >>

\* _batch_insert after a batch's commit: the next batch, or the return of
\* total_inserted into result["rows_written"]
AfterCommit(l) ==
    IF l.batch_start + BatchSize < Len(l.rows)
    THEN [ l EXCEPT !.pc = "exec", !.staged = {}, !.batch_start = @ + BatchSize ]
    ELSE [ l EXCEPT !.pc = "meta", !.staged = {},
                    !.result = [ @ EXCEPT !.rows_written = l.total_inserted ] ]

\* a failed batch whose staged rows stay in the table
RollbackKeeps(stored, staged) == stored \cup staged

\* writer.py _batch_insert: session.rollback() of the failed batch
Rollback(stored, staged) == stored

\* writer.py _batch_insert: session.commit of one batch returns or raises
Commit(p) ==
    /\ Live(p) /\ proc[p].pc = "commit"
    /\ LET l == proc[p]
           table == TableOf(FeedOf(l))
       IN  \/ /\ db' = [ db EXCEPT ![table] = @ \cup l.staged ]
              /\ proc' = [ proc EXCEPT ![p] = AfterCommit(l) ]
           \/ /\ MayFail(l, "commit")
              /\ \E exc \in env.db_errors :
                     proc' = [ proc EXCEPT ![p] = Raise(l, exc, "write") ]
              /\ db' = [ db EXCEPT ![table] = Rollback(@, l.staged) ]
    /\ UNCHANGED << env, calc, mvars, meta, clock, calls, running, task, poll_count,
                    last_poll_at, cancelled, stopping, op >>

\* the history of a feed type's update_ingest_meta calls after one more
MetaCalled(old, now, status, error_message) ==
    Some([ at |-> now, status |-> status, error_message |-> error_message,
           last_ok |-> IF status = "ok" THEN Some(now)
                       ELSE IF IsNone(old) THEN None ELSE Val(old).last_ok ])

\* an _ingest_feed that never sets its result's status
AfterMetaKeepsStatus(l) == l

\* _ingest_feed after update_ingest_meta(status="ok") returned
AfterMetaOk(l) == [ l EXCEPT !.result = [ @ EXCEPT !.status = "ok" ] ]

\* writer.py update_ingest_meta(status="ok") returns or raises
Meta(p) ==
    /\ Live(p) /\ proc[p].pc = "meta"
    /\ clock' = clock + env.tick
    /\ LET l == proc[p]
           f == FeedOf(l)
       IN  \/ /\ meta' = [ meta EXCEPT ![f] =
                     Some(UpsertIngestMeta(meta[f], clock, "ok", l.entity_count,
                                           l.feed_hash, NoText)) ]
              /\ calls' = [ calls EXCEPT ![f] = MetaCalled(@, clock, "ok", NoText) ]
              /\ proc' = [ proc EXCEPT ![p] = FinishFeed(AfterMetaOk(l), p) ]
           \/ /\ MayFail(l, "meta")
              /\ \E exc \in env.db_errors :
                     proc' = [ proc EXCEPT ![p] = Raise(l, exc, "meta") ]
              /\ UNCHANGED << meta, calls >>
    /\ UNCHANGED << env, calc, mvars, db, running, task, poll_count, last_poll_at,
                    cancelled, stopping, op >>

\* a _poll_loop without its `except Exception`: the exception ends the task
CycleEndsLoop(l, p) ==
    [ Local0 EXCEPT !.report = l.report, !.failed = l.failed, !.thrown = l.thrown,
                    !.norm = l.norm, !.began = l.began, !.cycles = l.cycles,
                    !.crashed = TRUE,
                    !.pc = IF p = API THEN "raised" ELSE "done" ]

\* run_once raises: to the direct caller, or into _poll_loop's
\* `except Exception`, which logs it and goes on to the sleep
CycleRaised(l, p) ==
    [ Local0 EXCEPT !.report = l.report, !.failed = l.failed, !.thrown = l.thrown,
                    !.norm = l.norm, !.began = l.began, !.cycles = l.cycles,
                    !.crashed = TRUE,
                    !.pc = IF p = API THEN "raised" ELSE "sleep" ]

\* a meta update of an except clause whose failure escapes _ingest_feed
ErrMetaEscapes(l, p) == CycleRaised(l, p)

\* the inner `except Exception` around the except clauses' meta update: the
\* failure is logged and _ingest_feed returns its result
ErrMetaFailed(l, p) == FinishFeed(l, p)

\* writer.py update_ingest_meta(status="error") of an except clause returns,
\* or raises into the inner `except Exception`
ErrMeta(p) ==
    /\ Live(p) /\ proc[p].pc = "errmeta"
    /\ clock' = clock + env.tick
    /\ LET l == proc[p]
           f == FeedOf(l)
       IN  \/ /\ meta' = [ meta EXCEPT ![f] =
                     Some(UpsertIngestMeta(meta[f], clock, "error", 0, "", l.exc)) ]
              /\ calls' = [ calls EXCEPT ![f] = MetaCalled(@, clock, "error", l.exc) ]
              /\ proc' = [ proc EXCEPT ![p] = FinishFeed(l, p) ]
           \/ /\ MayFail(l, "errmeta")
              /\ UNCHANGED << meta, calls >>
              /\ proc' = [ proc EXCEPT ![p] = ErrMetaFailed(l, p) ]
    /\ UNCHANGED << env, calc, mvars, db, running, task, poll_count, last_poll_at,
                    cancelled, stopping, op >>

\* routers/ingest.py run_once: a direct call of worker.run_once()
RunOnce ==
    /\ proc[API].pc \in { "idle", "returned", "raised" }
    /\ proc[API].cycles < env.polls
    /\ poll_count' = poll_count + 1
    /\ last_poll_at' = Some(clock)
    /\ proc' = [ proc EXCEPT ![API] = BeginCycle(@) ]
    /\ UNCHANGED << env, calc, mvars, dbvars, running, task, cancelled, stopping, op >>

CycleStep(p) == Fetch(p) \/ Backoff(p) \/ Exec(p) \/ Commit(p) \/ Meta(p) \/ ErrMeta(p)

(***************************************************************************)
(* matching/engine.py.  A datetime is its UTC epoch second, a date the     *)
(* number of its day since the epoch; match_confidence is in               *)
(* ten-thousandths.                                                        *)
(***************************************************************************)
DaySeconds == 86400

\* datetime.date() of a UTC datetime
DateOf(ts) == ts \div DaySeconds

\* a service date that only goes back for arrivals after 24:00:00
ServiceDateAfterDay(feed_ts, sched_arrival_sec) ==
    IF sched_arrival_sec > DaySeconds THEN DateOf(feed_ts) - 1 ELSE DateOf(feed_ts)

compute_service_date(feed_ts, sched_arrival_sec) ==
    IF sched_arrival_sec >= DaySeconds THEN DateOf(feed_ts) - 1 ELSE DateOf(feed_ts)

compute_scheduled_ts(service_date, sched_arrival_sec) ==
    service_date * DaySeconds + sched_arrival_sec

\* an observed time that takes a delay of zero for no delay
ObservedSkipsZeroDelay(arrival_time_epoch, arrival_delay, scheduled_ts, feed_ts) ==
    IF ~IsNone(arrival_time_epoch) /\ Val(arrival_time_epoch) > 0
    THEN Val(arrival_time_epoch)
    ELSE IF ~IsNone(arrival_delay) /\ Val(arrival_delay) # 0
    THEN scheduled_ts + Val(arrival_delay)
    ELSE feed_ts

compute_observed_ts(arrival_time_epoch, arrival_delay, scheduled_ts, feed_ts) ==
    IF ~IsNone(arrival_time_epoch) /\ Val(arrival_time_epoch) > 0
    THEN Val(arrival_time_epoch)
    ELSE IF ~IsNone(arrival_delay) THEN scheduled_ts + Val(arrival_delay)
    ELSE feed_ts

compute_delay_sec(observed_ts, scheduled_ts) == observed_ts - scheduled_ts

\* a key without the stop sequence
RtKeyOfStop(row) == << row.trip_id, row.stop_id >>

\* dedup_rt_updates' key
RtKey(row) == << row.trip_id, row.stop_id, row.stop_sequence >>

\* the loop of dedup_rt_updates from rows[i] on; best holds the dict's values
\* in the order their keys were first inserted
RECURSIVE DedupFrom(_, _, _)
DedupFrom(rows, i, best) ==
    IF i > Len(rows) THEN best
    ELSE LET row == rows[i]
             at == { j \in 1..Len(best) : RtKey(best[j]) = RtKey(row) }
         IN  IF at = {} THEN DedupFrom(rows, i + 1, Append(best, row))
             ELSE LET j == CHOOSE k \in at : TRUE
                  IN  IF row.feed_timestamp > best[j].feed_timestamp
                      THEN DedupFrom(rows, i + 1, [ best EXCEPT ![j] = row ])
                      ELSE DedupFrom(rows, i + 1, best)

dedup_rt_updates(rows) ==
    LET deduped == DedupFrom(rows, 1, << >>)
    IN  [ deduped |-> deduped, dedup_count |-> Len(rows) - Len(deduped) ]

\* round(1.0 / candidate_count, 4)
Confidence(candidate_count) == (2 * 10000 + candidate_count) \div (2 * candidate_count)

\* a classification that calls several candidates ambiguous in either mode
ClassifyLenient(candidate_count, strict_mode) ==
    IF candidate_count = 0 THEN [ match_status |-> "unmatched", match_confidence |-> 0 ]
    ELSE IF candidate_count = 1
    THEN [ match_status |-> "matched", match_confidence |-> 10000 ]
    ELSE [ match_status |-> "ambiguous", match_confidence |-> Confidence(candidate_count) ]

_classify_match(candidate_count, strict_mode) ==
    IF candidate_count = 0 THEN [ match_status |-> "unmatched", match_confidence |-> 0 ]
    ELSE IF candidate_count = 1
    THEN [ match_status |-> "matched", match_confidence |-> 10000 ]
    ELSE IF strict_mode THEN [ match_status |-> "unmatched", match_confidence |-> 0 ]
    ELSE [ match_status |-> "ambiguous", match_confidence |-> Confidence(candidate_count) ]

\* a row of rt_trip_updates as _fetch_rt_updates returns it
RtDict(s) ==
    [ id |-> s.id, trip_id |-> s.row.trip_id, stop_id |-> s.row.stop_id,
      stop_sequence |-> s.row.stop_sequence, arrival_delay |-> s.row.arrival_delay,
      arrival_time |-> s.row.arrival_time,
      schedule_relationship |-> s.row.schedule_relationship,
      feed_timestamp |-> s.row.feed_timestamp ]

\* the orders of a set of rows that ORDER BY feed_timestamp DESC allows
RECURSIVE NewestFirst(_)
NewestFirst(hits) ==
    IF hits = {} THEN { << >> }
    ELSE UNION { { << first >> \o rest : rest \in NewestFirst(hits \ { first }) } :
                 first \in { h \in hits :
                               \A o \in hits : h.feed_timestamp >= o.feed_timestamp } }

\* _fetch_rt_updates: the rows in the window, in any order the query allows
FetchRtUpdates(cutoff) ==
    NewestFirst({ RtDict(s) : s \in { u \in db["rt_trip_updates"] :
                      /\ u.row.feed_timestamp >= cutoff
                      /\ u.row.schedule_relationship = "SCHEDULED" } })

\* the entries of a set of stop_times rows by descending stop_sequence
RECURSIVE ByDescendingSequence(_)
ByDescendingSequence(entries) ==
    IF entries = {} THEN << >>
    ELSE LET first == CHOOSE e \in entries :
                          \A o \in entries : e.stop_sequence >= o.stop_sequence
         IN  << first >> \o ByDescendingSequence(entries \ { first })

\* the entries of a set of stop_times rows by ascending stop_sequence
RECURSIVE BySequence(_)
BySequence(entries) ==
    IF entries = {} THEN << >>
    ELSE LET first == CHOOSE e \in entries :
                          \A o \in entries : e.stop_sequence <= o.stop_sequence
         IN  << first >> \o BySequence(entries \ { first })

\* _fetch_schedule_map(trip_ids).get(key, []): the stop_times of the trips,
\* ORDER BY trip_id, stop_sequence, grouped by (trip_id, stop_id)
ScheduleCandidates(trip_ids, key) ==
    BySequence({ [ stop_sequence |-> st.stop_sequence,
                   sched_arrival_sec |-> st.sched_arrival_sec ] :
                 st \in { t \in stop_times : /\ t.trip_id \in trip_ids
                                             /\ t.trip_id = key[1]
                                             /\ t.stop_id = key[2] } })

\* _match_single once the candidates are looked up and limited
MatchAmong(rt_row, candidates, params) ==
    LET feed_ts == rt_row.feed_timestamp
        candidate_count == Len(candidates)
        class == _classify_match(candidate_count, params.strict_mode)
    IN  IF candidate_count = 0
        THEN [ trip_id |-> rt_row.trip_id,
               stop_id |-> rt_row.stop_id,
               stop_sequence |-> rt_row.stop_sequence,
               service_date |-> DateOf(feed_ts),
               scheduled_ts |-> feed_ts,
               observed_ts |-> compute_observed_ts(rt_row.arrival_time,
                                   rt_row.arrival_delay, feed_ts, feed_ts),
               delay_sec |-> 0,
               match_status |-> class.match_status,
               match_confidence |-> class.match_confidence,
               source_feed_ts |-> feed_ts,
               rt_trip_update_id |-> rt_row.id ]
        ELSE
        LET exact == { i \in 1..candidate_count :
                         /\ rt_row.stop_sequence > 0
                         /\ candidates[i].stop_sequence = rt_row.stop_sequence }
            lowest == CHOOSE i \in 1..candidate_count :
                         \A j \in 1..candidate_count :
                            /\ candidates[i].stop_sequence <= candidates[j].stop_sequence
                            /\ ( candidates[i].stop_sequence = candidates[j].stop_sequence
                                    => i <= j )
            chosen == IF exact # {}
                      THEN candidates[CHOOSE i \in exact : \A j \in exact : i <= j]
                      ELSE candidates[lowest]
            svc_date == compute_service_date(feed_ts, chosen.sched_arrival_sec)
            scheduled_ts == compute_scheduled_ts(svc_date, chosen.sched_arrival_sec)
            observed_ts == compute_observed_ts(rt_row.arrival_time, rt_row.arrival_delay,
                                               scheduled_ts, feed_ts)
        IN  [ trip_id |-> rt_row.trip_id,
              stop_id |-> rt_row.stop_id,
              stop_sequence |-> chosen.stop_sequence,
              service_date |-> svc_date,
              scheduled_ts |-> scheduled_ts,
              observed_ts |-> observed_ts,
              delay_sec |-> compute_delay_sec(observed_ts, scheduled_ts),
              match_status |-> class.match_status,
              match_confidence |-> class.match_confidence,
              source_feed_ts |-> feed_ts,
              rt_trip_update_id |-> rt_row.id ]

\* _match_single: None, or the row for matched_arrivals
_match_single(rt_row, trip_ids, params) ==
    IF rt_row.trip_id = "" \/ rt_row.stop_id = "" THEN None
    ELSE CHOOSE result \in
             { Some(MatchAmong(rt_row,
                               SubSeq(found, 1, Min(params.max_candidates, Len(found))),
                               params)) :
               found \in { ScheduleCandidates(trip_ids,
                                              << rt_row.trip_id, rt_row.stop_id >>) } } : TRUE

\* the conflict target of _persist_batch's INSERT
MatchedKey(row) == << row.trip_id, row.stop_id, row.stop_sequence, row.service_date >>

\* an INSERT without the ON CONFLICT clause, on a table without the unique index
InsertMatched(table, row, now) ==
    [ rows |-> table.rows \cup
                  { [ id |-> table.last_id + 1, created_at |-> now, row |-> row ] },
      last_id |-> table.last_id + 1 ]

\* INSERT INTO matched_arrivals ... ON CONFLICT (trip_id, stop_id,
\* stop_sequence, service_date) DO UPDATE SET the other columns.  The id
\* default is drawn from the sequence before the conflict is seen.
UpsertMatched(table, row, now) ==
    LET Upsert(t) ==
            LET hit == { m \in t.rows : MatchedKey(m.row) = MatchedKey(row) }
            IN  [ rows |-> IF hit = {}
                           THEN t.rows \cup
                                   { [ id |-> t.last_id + 1, created_at |-> now,
                                       row |-> row ] }
                           ELSE { IF m \in hit THEN [ m EXCEPT !.row = row ] ELSE m :
                                  m \in t.rows },
                  last_id |-> t.last_id + 1 ]
    IN  CHOOSE after \in { Upsert(t) : t \in { table } } : TRUE

\* _persist_batch: the inserts are executed one by one, then committed
RECURSIVE PersistFrom(_, _, _, _)
PersistFrom(table, inserts, i, now) ==
    IF i > Len(inserts) THEN table
    ELSE PersistFrom(UpsertMatched(table, inserts[i], now), inserts, i + 1, now)

\* _match_single raises on this update.  Nothing in a row as
\* _fetch_rt_updates returns it makes _match_single raise: the updates that
\* raise are the environment's, as the errors of the database are.
Raises(rt_row) == rt_row.id \in env.raising

\* a loop that an update which failed to match ends
AbortAfterFailure(batch, i) == Len(batch) + 1

\* _process_batch's loop after batch[i] failed to match: the next update
AfterFailure(batch, i) == i + 1

\* _process_batch's loop over the batch from batch[i] on: the rows to insert
\* and the report's counters
RECURSIVE MatchFrom(_, _, _, _, _)
MatchFrom(batch, i, trip_ids, params, acc) ==
    IF i > Len(batch) THEN acc
    ELSE IF Raises(batch[i])
    THEN MatchFrom(batch, AfterFailure(batch, i), trip_ids, params,
                   [ acc EXCEPT !.report.error_count = @ + 1 ])
    ELSE LET Counted(result) ==
                 LET status == IF IsNone(result) THEN "unmatched"
                               ELSE Val(result).match_status
                 IN  [ inserts |-> acc.inserts \o
                                      (IF IsNone(result) THEN << >> ELSE << Val(result) >>),
                       report |-> [ acc.report EXCEPT
                          !.matched_count = @ + (IF status = "matched" THEN 1 ELSE 0),
                          !.ambiguous_count = @ + (IF status = "ambiguous" THEN 1 ELSE 0),
                          !.unmatched_count = @ + (IF status = "unmatched" THEN 1 ELSE 0) ] ]
         IN  CHOOSE done \in
                 { MatchFrom(batch,
                             IF IsNone(result) THEN AfterFailure(batch, i) ELSE i + 1,
                             trip_ids, params, Counted(result)) :
                   result \in { _match_single(batch[i], trip_ids, params) } } :
                 TRUE

MatchingReport ==
    [ scanned_count |-> 0, matched_count |-> 0, unmatched_count |-> 0,
      ambiguous_count |-> 0, deduped_count |-> 0, error_count |-> 0 ]

\* no run under way.  runs, history and before are history: the runs
\* completed, the parameters of each, and the rows of matched_arrivals when
\* the last run began.
MatchIdle ==
    [ pc |-> "idle", params |-> None, deduped |-> << >>, i |-> 0,
      report |-> MatchingReport, runs |-> 0, history |-> << >>, before |-> {} ]

\* MatchingEngine.run returns its report
MatchReturn(m, report) ==
    [ m EXCEPT !.pc = "idle", !.deduped = << >>, !.i = 0, !.report = report,
               !.runs = @ + 1, !.history = Append(@, Val(m.params)) ]

\* MatchingEngine.run up to the first batch: the window is fetched and
\* deduplicated; without rows the run returns at once
MatchRun ==
    /\ match.pc = "idle"
    /\ match.runs < MaxRuns
    /\ \E params \in env.engines :
       \E rt_rows \in FetchRtUpdates(env.now - params.window_minutes * 60) :
          LET d == dedup_rt_updates(rt_rows)
              m == [ match EXCEPT !.params = Some(params),
                                  !.before = matched_arrivals.rows ]
              report == [ MatchingReport EXCEPT !.scanned_count = Len(rt_rows),
                                                !.deduped_count = d.dedup_count ]
          IN  match' = IF Len(rt_rows) = 0
                       THEN MatchReturn(m, [ MatchingReport EXCEPT !.scanned_count = 0 ])
                       ELSE [ m EXCEPT !.pc = "batch", !.deduped = d.deduped, !.i = 0,
                                       !.report = report ]
    /\ UNCHANGED << env, calc, dbvars, wvars, op, stop_times, matched_arrivals >>

\* _process_batch of the next batch, with _persist_batch's commit
MatchBatch ==
    /\ match.pc = "batch"
    /\ LET params == Val(match.params)
           batch == SubSeq(match.deduped, match.i + 1,
                           Min(match.i + params.batch_size, Len(match.deduped)))
           trip_ids == { batch[k].trip_id : k \in 1..Len(batch) }
       IN  \E done \in { MatchFrom(batch, 1, trip_ids, params,
                                    [ inserts |-> << >>, report |-> match.report ]) } :
              /\ matched_arrivals' = PersistFrom(matched_arrivals, done.inserts, 1, env.now)
              /\ match' = IF match.i + params.batch_size < Len(match.deduped)
                          THEN [ match EXCEPT !.i = @ + params.batch_size,
                                              !.report = done.report ]
                          ELSE MatchReturn(match, done.report)
    /\ UNCHANGED << env, calc, dbvars, wvars, op, stop_times >>

(***************************************************************************)
(* Specification of direct poll cycles: a stopped worker whose run_once    *)
(* is called, one call at a time, against endpoints and a database that    *)
(* may fail.                                                               *)
(***************************************************************************)
NoCall == [ fn |-> "none", result |-> None ]

InitWorker(e) ==
    /\ env = e
    /\ calc = NoCall
    /\ meta = [ f \in FeedTypes |-> None ]
    /\ clock = Clock0
    /\ calls = [ f \in FeedTypes |-> None ]
    /\ running = FALSE
    /\ task = 0
    /\ poll_count = 0
    /\ last_poll_at = None
    /\ proc = [ p \in Procs |-> IF p = API THEN Local0
                                 ELSE [ Local0 EXCEPT !.pc = "unborn" ] ]
    /\ cancelled = {}
    /\ stopping = {}
    /\ op = [ call |-> "none", seq |-> 0 ]

InitState(e) ==
    /\ InitWorker(e)
    /\ db = [ t \in Tables |-> {} ]
    /\ stop_times = {}
    /\ matched_arrivals = [ rows |-> {}, last_id |-> 0 ]
    /\ match = MatchIdle

DbCalls == { "exec", "commit", "meta", "errmeta" }

CycleEnv ==
    [ served |-> [ f \in FeedTypes |-> Catalog(f) ],
      faults |-> [ f \in FeedTypes |-> DbCalls ],
      db_errors |-> { DbErrorShort, DbErrorLong },
      cycle_faults |-> FALSE, polls |-> 1, tasks |-> 0, tick |-> 1 ]

InitCycle == InitState(CycleEnv)

NextCycle ==
    \/ RunOnce
    \/ Fetch(API)
    \/ Backoff(API)
    \/ Exec(API)
    \/ Commit(API)
    \/ Meta(API)
    \/ ErrMeta(API)

SpecCycle == InitCycle /\ [][NextCycle]_vars

(***************************************************************************)
(* Specification of matching runs: MatchingEngine.run called again and     *)
(* again, with any of a few engines, on tables that do not change:         *)
(* rt_trip_updates as the ingestion of some trip-update feeds left it, and *)
(* one of a few schedules.                                                 *)
(***************************************************************************)
\* midnight of the day the feeds are from
Day0 == 10 * DaySeconds

MatchFeeds ==
    << Body("m0", Day0 - 7200,
            << TripUpdate("T3", 0, << Stu("S9", 1, Some([delay |-> 30, time |-> 0])) >>) >>),
       Body("m1", Day0 + 1800,
            << TripUpdate("T1", 0, << Stu("S1", 1, Some([delay |-> 60, time |-> 0])),
                                      Stu("S2", 2, None) >>),
               TripUpdate("T2", 3, << Stu("S1", 1, None) >>) >>),
       Body("m2", Day0 + 1830,
            << TripUpdate("T1", 0,
                   << Stu("S1", 0, Some([delay |-> 0, time |-> Day0 + 5500])) >>) >>),
       Body("m3", Day0 + 1860,
            << TripUpdate("T1", 0, << Stu("S1", 1, Some([delay |-> 120, time |-> 0])),
                                      Stu("S1", 5, None) >>) >>) >>

\* rt_trip_updates after the feeds numbered in `chosen` were ingested in order
RECURSIVE Ingested(_, _, _)
Ingested(chosen, i, stored) ==
    IF i > Len(MatchFeeds) THEN stored
    ELSE IF i \notin chosen THEN Ingested(chosen, i + 1, stored)
    ELSE CHOOSE after \in
             { Ingested(chosen, i + 1,
                   s \cup InsertDoNothing("rt_trip_updates", s, s,
                                          normalize_trip_updates(MatchFeeds[i]), 1)) :
               s \in { stored } } : TRUE

StopTime(trip_id, stop_id, stop_sequence, sched_arrival_sec) ==
    [ trip_id |-> trip_id, stop_id |-> stop_id, stop_sequence |-> stop_sequence,
      sched_arrival_sec |-> sched_arrival_sec ]

Schedules ==
    { {},
      { StopTime("T1", "S1", 1, 1500), StopTime("T1", "S2", 2, 2000),
        StopTime("T1", "S1", 5, 4000) },
      { StopTime("T1", "S1", 1, 91800), StopTime("T1", "S2", 2, 2000) } }

Engine(window_minutes, max_candidates, batch_size, strict_mode) ==
    [ window_minutes |-> window_minutes, max_candidates |-> max_candidates,
      batch_size |-> batch_size, strict_mode |-> strict_mode ]

MatchEnv ==
    [ served |-> [ f \in FeedTypes |-> {} ],
      faults |-> [ f \in FeedTypes |-> {} ],
      db_errors |-> {},
      cycle_faults |-> FALSE, polls |-> 0, tasks |-> 0, tick |-> 0,
      now |-> Day0 + 1920, raising |-> {},
      engines |-> { Engine(90, 5, 2, FALSE), Engine(180, 5, 1, FALSE),
                    Engine(90, 1, 2, TRUE), Engine(180, 5, 2, TRUE) } ]

InitMatch ==
    /\ InitWorker(MatchEnv)
    /\ \E chosen \in SUBSET (1..Len(MatchFeeds)) :
           db = [ t \in Tables |-> IF t = "rt_trip_updates"
                                   THEN Ingested(chosen, 1, {}) ELSE {} ]
    /\ stop_times \in Schedules
    /\ matched_arrivals = [ rows |-> {}, last_id |-> 0 ]
    /\ match = MatchIdle

NextMatch ==
    \/ MatchRun
    \/ MatchBatch

SpecMatch == InitMatch /\ [][NextMatch]_vars

(***************************************************************************)
(* Specification of repeated polls: run_once called again and again on    *)
(* endpoints that keep serving the same payloads, with a database whose   *)
(* commits may fail.                                                      *)
(***************************************************************************)
PollsEnv ==
    [ served |-> [ f \in FeedTypes |->
                     CASE f = FEED_TRIP_UPDATES ->
                            { HttpError,
                              Body("tu4", TsFresh,
                                   << TripUpdate("T1", 0,
                                          << Stu("S1", 1, None), Stu("S1", 5, None),
                                             Stu("S2", 2, None), Stu("S1", 7, None) >>) >>) }
                       [] f = FEED_VEHICLE_POSITIONS ->
                            { Body("vp1", TsFresh, << Vehicle(Some("V1"), None) >>) }
                       [] OTHER -> { Garbage } ],
      faults |-> [ f \in FeedTypes |->
                     IF f = FEED_TRIP_UPDATES THEN { "commit", "errmeta" } ELSE {} ],
      db_errors |-> { DbErrorShort, DbErrorLong },
      cycle_faults |-> FALSE, polls |-> MaxPolls + 1, tasks |-> 0, tick |-> 1 ]

InitPolls == InitState(PollsEnv)

SpecPolls == InitPolls /\ [][NextCycle]_vars

(***************************************************************************)
(* Specification of the fetcher: one run_once whose endpoints answer each  *)
(* attempt with a status error, a transport error, an empty body or a      *)
(* feed; the database does not fail.                                       *)
(***************************************************************************)
FetchEnv ==
    [ served |-> [ f \in FeedTypes |->
                     CASE f = FEED_TRIP_UPDATES ->
                            { HttpError, TransportError, EmptyBody, Garbage,
                              Body("tu1", TsFresh,
                                   << TripUpdate("T1", 0,
                                          << Stu("S1", 1, None), Stu("S2", 2, None),
                                             Stu("S3", 3, None) >>) >>),
                              Body("tu5", TsFresh,
                                   << TripUpdate("T2", 0, << Stu("S1", 1, None) >>) >>) }
                       [] f = FEED_VEHICLE_POSITIONS ->
                            { EmptyBody,
                              Body("vp1", TsFresh, << Vehicle(Some("V1"), None) >>) }
                       [] OTHER -> { TransportError, HttpError } ],
      faults |-> [ f \in FeedTypes |-> {} ],
      db_errors |-> { DbErrorShort },
      cycle_faults |-> FALSE, polls |-> 1, tasks |-> 0, tick |-> 1 ]

InitFetch == InitState(FetchEnv)

(***************************************************************************)
(* Specification of the writer: one run_once on feeds of several batches,  *)
(* where any execute and any commit of a batch may fail.                   *)
(***************************************************************************)
WritePosition ==
    Some([ latitude |-> 49, longitude |-> -123, bearing |-> 0, speed |-> 7 ])

WriteEnv ==
    [ served |-> [ f \in FeedTypes |->
                     CASE f = FEED_TRIP_UPDATES ->
                            { Body("tu6", TsFresh,
                                   << TripUpdate("T1", 0,
                                          << Stu("S1", 1, None), Stu("S2", 2, None),
                                             Stu("S3", 3, None), Stu("S4", 4, None),
                                             Stu("S5", 5, None) >>),
                                      TripUpdate("T2", 0,
                                          << Stu("S1", 1, None), Stu("S2", 2, None) >>) >>),
                              Body("tu7", TsFresh,
                                   << TripUpdate("T1", 0,
                                          << Stu("S1", 1, None), Stu("S2", 2, None),
                                             Stu("S1", 1, None), Stu("S3", 3, None) >>) >>) }
                       [] f = FEED_VEHICLE_POSITIONS ->
                            { Body("vp3", TsFresh,
                                   << Vehicle(Some("V1"), WritePosition),
                                      Vehicle(Some("V2"), WritePosition),
                                      Vehicle(Some("V3"), WritePosition) >>) }
                       [] OTHER ->
                            { HttpError,
                              Body("sa3", TsFresh,
                                   << Alert("A1", << >>), Alert("A2", << >>),
                                      Alert("A3", << >>) >>) } ],
      faults |-> [ f \in FeedTypes |-> { "exec", "commit" } ],
      db_errors |-> { DbErrorShort, DbErrorLong },
      cycle_faults |-> FALSE, polls |-> 1, tasks |-> 0, tick |-> 1 ]

InitWrite == InitState(WriteEnv)

(***************************************************************************)
(* Specification of staleness: two run_once calls far enough apart that a  *)
(* feed fresh in the first is stale in the second; the header timestamps   *)
(* served are zero, old, exactly the threshold old, recent, and ahead of   *)
(* the clock.                                                               *)
(***************************************************************************)
StaleTick == StaleThreshold + 30

StaleEnv ==
    [ served |-> [ f \in FeedTypes |->
                     CASE f = FEED_TRIP_UPDATES ->
                            { Body("tu_recent", TsFresh,
                                   << TripUpdate("T1", 0,
                                          << Stu("S1", 1, None), Stu("S2", 2, None),
                                             Stu("S3", 3, None) >>) >>),
                              Body("tu_old", TsOld,
                                   << TripUpdate("T2", 0, << Stu("S1", 1, None) >>) >>),
                              Body("tu_edge", Clock0 - StaleThreshold,
                                   << TripUpdate("T3", 0, << Stu("S1", 1, None) >>) >>),
                              Body("tu_zero", 0,
                                   << TripUpdate("T4", 0, << Stu("S1", 1, None) >>) >>),
                              Body("tu_ahead", Clock0 + 10 * StaleTick,
                                   << TripUpdate("T5", 0, << Stu("S1", 1, None) >>) >>) }
                       [] f = FEED_VEHICLE_POSITIONS ->
                            { Body("vp_edge", Clock0 - StaleThreshold,
                                   << Vehicle(Some("V1"), WritePosition) >>) }
                       [] OTHER -> { HttpError } ],
      faults |-> [ f \in FeedTypes |->
                     IF f = FEED_TRIP_UPDATES THEN { "commit" } ELSE {} ],
      db_errors |-> { DbErrorShort },
      cycle_faults |-> FALSE, polls |-> 2, tasks |-> 0, tick |-> StaleTick ]

InitStale == InitState(StaleEnv)

SpecStale == InitStale /\ [][NextCycle]_vars

(***************************************************************************)
(* Specification of dedup_rt_updates: the function is called once on a     *)
(* list of at most MaxLen rows of one trip, in any order, with any of a    *)
(* few stops, stop sequences and feed timestamps.                          *)
(***************************************************************************)
MaxLen == 3

RtRow(id, stop_id, stop_sequence, feed_timestamp) ==
    [ id |-> id, trip_id |-> "T1", stop_id |-> stop_id,
      stop_sequence |-> stop_sequence, arrival_delay |-> None,
      arrival_time |-> None, schedule_relationship |-> "SCHEDULED",
      feed_timestamp |-> feed_timestamp ]

DedupStamps == { TsOld, TsFresh, Clock0 }

\* the lists of rows of rt_trip_updates, whose ids are distinct
DedupInputs ==
    UNION { { [ i \in 1..n |-> RtRow(i, pick[i][1], pick[i][2], pick[i][3]) ] :
              pick \in [ 1..n -> { "S1", "S2" } \X { 1, 2 } \X DedupStamps ] } :
            n \in 0..MaxLen }

InitDedup == \E rows \in DedupInputs : InitState([ rows |-> rows ])

DedupCall ==
    /\ calc = NoCall
    /\ calc' = [ fn |-> "dedup_rt_updates", result |-> dedup_rt_updates(env.rows) ]
    /\ UNCHANGED << env, dbvars, wvars, op, mvars >>

SpecDedup == InitDedup /\ [][DedupCall]_vars

(***************************************************************************)
(* Specification of _match_single: the function is called once, in either  *)
(* mode and with a few candidate limits, on an update of trip T1 and        *)
(* against a schedule that holds any of three entries for (T1, S1).         *)
(***************************************************************************)
SingleRows ==
    { [ RtRow(7, stop_id, stop_sequence, Day0 + 1800) EXCEPT
            !.trip_id = trip_id, !.arrival_delay = arrival_delay ] :
      trip_id \in { "T1", "" }, stop_id \in { "S1", "" },
      stop_sequence \in { 0, 1, 5 }, arrival_delay \in { None, Some(60) } }

SingleSchedules ==
    { entries \cup { StopTime("T1", "S2", 2, 2000) } :
      entries \in SUBSET { StopTime("T1", "S1", 1, 1500), StopTime("T1", "S1", 3, 1700),
                           StopTime("T1", "S1", 5, 4000) } }

SingleEngines ==
    { Engine(90, max_candidates, 2, strict_mode) :
      max_candidates \in { 1, 2, 5 }, strict_mode \in BOOLEAN }

InitSingle ==
    /\ \E rt_row \in SingleRows : \E params \in SingleEngines :
           InitWorker([ rt_row |-> rt_row, params |-> params ])
    /\ db = [ t \in Tables |-> {} ]
    /\ stop_times \in SingleSchedules
    /\ matched_arrivals = [ rows |-> {}, last_id |-> 0 ]
    /\ match = MatchIdle

SingleCall ==
    /\ calc = NoCall
    /\ calc' = [ fn |-> "_match_single",
                 result |-> _match_single(env.rt_row, { env.rt_row.trip_id }, env.params) ]
    /\ UNCHANGED << env, dbvars, wvars, op, mvars >>

SpecSingle == InitSingle /\ [][SingleCall]_vars

(***************************************************************************)
(* Specification of matching runs over updates that fail to match:         *)
(* MatchingEngine.run on an rt_trip_updates table that holds any of five    *)
(* updates, two of them without a trip_id or a stop_id, with _match_single  *)
(* raising on any of two of the others.                                     *)
(***************************************************************************)
StoredUpdate(id, trip_id, stop_id, stop_sequence, feed_timestamp) ==
    [ id |-> id,
      row |-> [ trip_id |-> trip_id, route_id |-> "", stop_id |-> stop_id,
                stop_sequence |-> stop_sequence, arrival_delay |-> None,
                arrival_time |-> None, departure_delay |-> None,
                departure_time |-> None, schedule_relationship |-> "SCHEDULED",
                feed_timestamp |-> feed_timestamp ] ]

BatchUpdates ==
    { StoredUpdate(1, "T1", "S1", 1, Day0 + 1840),
      StoredUpdate(2, "", "S1", 1, Day0 + 1850),
      StoredUpdate(3, "T1", "", 2, Day0 + 1810),
      StoredUpdate(4, "T1", "S2", 2, Day0 + 1830),
      StoredUpdate(5, "T2", "S1", 1, Day0 + 1820) }

BatchEnv(raising) ==
    [ now |-> Day0 + 1920, raising |-> raising,
      engines |-> { Engine(90, 5, 1, FALSE), Engine(90, 5, 2, FALSE),
                    Engine(90, 5, 5, TRUE) } ]

InitBatch ==
    /\ \E raising \in SUBSET { 1, 4 } : InitWorker(BatchEnv(raising))
    /\ \E stored \in SUBSET BatchUpdates :
           db = [ t \in Tables |-> IF t = "rt_trip_updates" THEN stored ELSE {} ]
    /\ stop_times \in Schedules
    /\ matched_arrivals = [ rows |-> {}, last_id |-> 0 ]
    /\ match = MatchIdle

SpecBatch == InitBatch /\ [][NextMatch]_vars

(***************************************************************************)
(* decoder.py, and the specification of GtfsRtDecoder: decode is called on *)
(* one byte string, malformed, zero-length or the serialization of a feed   *)
(* of at most two entities, perhaps a second time, and then the two         *)
(* accessors are called on the feed it returned.                            *)
(***************************************************************************)
\* a decoder that takes a zero-length byte string for malformed
DecodeRejectsEmpty(data) ==
    IF data.malformed \/ data.size = 0
    THEN [ raised |-> Some(DecodeError_), feed |-> None ]
    ELSE [ raised |-> None,
           feed |-> Some([ timestamp |-> data.timestamp, entity |-> data.entity ]) ]

\* GtfsRtDecoder.decode: the FeedMessage parsed from the bytes, or
\* DecodeError_ when ParseFromString raises DecodeError
decode(data) ==
    IF data.malformed
    THEN [ raised |-> Some(DecodeError_), feed |-> None ]
    ELSE [ raised |-> None,
           feed |-> Some([ timestamp |-> data.timestamp, entity |-> data.entity ]) ]

get_feed_timestamp(feed) == IF feed.timestamp # 0 THEN feed.timestamp ELSE 0

get_entity_count(feed) == Len(feed.entity)

DecodeEntities ==
    { TripUpdate("T1", 0, << Stu("S1", 1, None) >>), Vehicle("V1", None),
      Alert("A1", << >>) }

\* the byte strings: zero-length, malformed, and the serializations of the
\* feeds of at most two entities with a header timestamp unset or set
DecodeInputs ==
    { EmptyBody, Garbage, [ Garbage EXCEPT !.hash = "cut", !.size = 1 ] } \cup
    { Body("feed", timestamp, entity) :
      timestamp \in { 0, TsOld, TsFresh, Clock0 },
      entity \in { << >> } \cup { << e >> : e \in DecodeEntities }
                     \cup { << e, f >> : e \in DecodeEntities, f \in DecodeEntities } }

InitDecode == \E data \in DecodeInputs : InitState([ data |-> data ])

DecodeCall ==
    /\ calc.fn \in { "none", "decode" }
    /\ calc' = [ fn |-> IF calc.fn = "none" THEN "decode" ELSE "decode_again",
                 result |-> decode(env.data) ]
    /\ UNCHANGED << env, dbvars, wvars, op, mvars >>

TimestampCall ==
    /\ calc.fn \in { "decode", "decode_again" }
    /\ IsNone(calc.result.raised)
    /\ calc' = [ fn |-> "get_feed_timestamp",
                 result |-> [ feed |-> Val(calc.result.feed),
                              value |-> get_feed_timestamp(Val(calc.result.feed)) ] ]
    /\ UNCHANGED << env, dbvars, wvars, op, mvars >>

EntityCountCall ==
    /\ calc.fn \in { "decode", "decode_again" }
    /\ IsNone(calc.result.raised)
    /\ calc' = [ fn |-> "get_entity_count",
                 result |-> [ feed |-> Val(calc.result.feed),
                              value |-> get_entity_count(Val(calc.result.feed)) ] ]
    /\ UNCHANGED << env, dbvars, wvars, op, mvars >>

NextDecode == DecodeCall \/ TimestampCall \/ EntityCountCall

SpecDecode == InitDecode /\ [][NextDecode]_vars

(***************************************************************************)
(* Specification of the normalizer's enum translations: one of the four    *)
(* lookups is made once, with any code from 0 to MaxCode.                   *)
(***************************************************************************)
MaxCode == 15

EnumNames == { "schedule_relationship", "current_status", "cause", "effect" }

\* the keys of the lookup table
EnumTable(enum) ==
    CASE enum = "schedule_relationship" -> { 0, 1, 2, 3, 5 }
      [] enum = "current_status" -> { 0, 1, 2 }
      [] enum = "cause" -> 1..12
      [] enum = "effect" -> 1..11

\* the lookup as the normalizer makes it: TABLE.get(code, default)
Translate(enum, code) ==
    CASE enum = "schedule_relationship" -> SCHEDULE_RELATIONSHIP(code)
      [] enum = "current_status" -> VEHICLE_STOP_STATUS(code)
      [] enum = "cause" -> CAUSE_MAP(code)
      [] enum = "effect" -> EFFECT_MAP(code)

InitEnum ==
    \E enum \in EnumNames : \E code \in 0..MaxCode :
        InitState([ enum |-> enum, code |-> code ])

TranslateCall ==
    /\ calc.fn = "none"
    /\ calc' = [ fn |-> env.enum, result |-> Translate(env.enum, env.code) ]
    /\ UNCHANGED << env, dbvars, wvars, op, mvars >>

SpecEnum == InitEnum /\ [][TranslateCall]_vars

(***************************************************************************)
(* Specification of the time functions: for one feed timestamp, scheduled  *)
(* arrival, arrival time and arrival delay, either the service date and     *)
(* scheduled time are computed, or the observed time on top of them, as     *)
(* _match_single does.                                                      *)
(***************************************************************************)
\* 2026-02-06T00:00:00Z
Feb6 == 20490 * DaySeconds

\* 2026-02-06T23:59:59Z, 2026-02-07T00:00:00Z, 2026-02-07T01:30:00Z
FeedStamps == { Feb6 + DaySeconds - 1, Feb6 + DaySeconds, Feb6 + DaySeconds + 5400 }

\* 00:00:00, 08:00:00, 23:59:59, 24:00:00, 25:30:00
ArrivalSecs == { 0, 28800, DaySeconds - 1, DaySeconds, DaySeconds + 5400 }

ArrivalTimes == { None, Some(0), Some(-1), Some(Feb6 + 30000) }

ArrivalDelays == { None, Some(0), Some(-60), Some(60) }

InitTimes ==
    \E feed_ts \in FeedStamps, sched_arrival_sec \in ArrivalSecs,
       arrival_time \in ArrivalTimes, arrival_delay \in ArrivalDelays :
        InitState([ feed_ts |-> feed_ts, sched_arrival_sec |-> sched_arrival_sec,
                    arrival_time |-> arrival_time, arrival_delay |-> arrival_delay ])

ScheduledCall ==
    /\ calc = NoCall
    /\ \E svc_date \in { compute_service_date(env.feed_ts, env.sched_arrival_sec) } :
           calc' = [ fn |-> "compute_scheduled_ts",
                     result |-> [ service_date |-> svc_date,
                                  scheduled_ts |-> compute_scheduled_ts(
                                                       svc_date, env.sched_arrival_sec) ] ]
    /\ UNCHANGED << env, dbvars, wvars, op, mvars >>

ObservedCall ==
    /\ calc = NoCall
    /\ \E scheduled_ts \in
              { compute_scheduled_ts(
                    compute_service_date(env.feed_ts, env.sched_arrival_sec),
                    env.sched_arrival_sec) } :
           calc' = [ fn |-> "compute_observed_ts",
                     result |-> [ scheduled_ts |-> scheduled_ts,
                                  observed_ts |-> compute_observed_ts(
                                                      env.arrival_time, env.arrival_delay,
                                                      scheduled_ts, env.feed_ts) ] ]
    /\ UNCHANGED << env, dbvars, wvars, op, mvars >>

NextTimes == ScheduledCall \/ ObservedCall

SpecTimes == InitTimes /\ [][NextTimes]_vars

SpecWrite == InitWrite /\ [][NextCycle]_vars

\* the specification of batched writes over two polls, the second on the
\* tables and the meta rows the first left
RecordEnv == [ WriteEnv EXCEPT !.polls = 2 ]

InitRecord == InitState(RecordEnv)

SpecRecord == InitRecord /\ [][NextCycle]_vars

SpecFetch == InitFetch /\ [][NextCycle]_vars

(***************************************************************************)
(* worker.py: start, stop and _poll_loop.  start() has no suspension; stop()  *)
(* has one, `await self._task`.  A cancellation requested by task.cancel()  *)
(* is delivered as CancelledError at the task's current suspension, and the *)
(* task takes no other step before it.                                      *)
(***************************************************************************)
Alive(t) == proc[t].pc \notin { "unborn", "done" }

Called(call) == [ call |-> call, seq |-> 1 - op.seq ]

\* a start() that never takes the early return
StartNeverIgnored(is_running) == FALSE

\* start() with self._running set: the request is ignored
StartIgnored(is_running) == is_running

\* start()
Start ==
    IF StartIgnored(running)
    THEN /\ op' = Called("start_ignored")
         /\ UNCHANGED << env, calc, mvars, dbvars, wvars >>
    ELSE \E t \in TaskIds :
            /\ t <= env.tasks
            /\ proc[t].pc = "unborn"
            /\ \A u \in TaskIds : u < t => proc[u].pc # "unborn"
            /\ running' = TRUE
            /\ task' = t
            /\ proc' = [ proc EXCEPT ![t] = [ @ EXCEPT !.pc = "new" ] ]
            /\ op' = Called("start")
            /\ UNCHANGED << env, calc, mvars, dbvars, poll_count, last_poll_at, cancelled, stopping >>

\* stop() up to `await self._task`, or to its return when there is no task
\* to await
Stop ==
    IF ~running
    THEN /\ op' = Called("stop_ignored")
         /\ UNCHANGED << env, calc, mvars, dbvars, wvars >>
    ELSE /\ running' = FALSE
         /\ IF task # 0 /\ proc[task].pc # "done"
            THEN /\ cancelled' = cancelled \cup { task }
                 /\ stopping' = stopping \cup { task }
                 /\ task' = task
                 /\ op' = Called("stop_waits")
            ELSE /\ task' = 0
                 /\ op' = Called("stop_no_task")
                 /\ UNCHANGED << cancelled, stopping >>
         /\ UNCHANGED << env, calc, mvars, dbvars, poll_count, last_poll_at, proc >>

\* stop() after `await self._task`: the awaited task is done
StopReturn(t) ==
    /\ t \in stopping
    /\ proc[t].pc = "done"
    /\ stopping' = stopping \ { t }
    /\ task' = 0
    /\ op' = Called("stop_returned")
    /\ UNCHANGED << env, calc, mvars, dbvars, running, poll_count, last_poll_at, proc, cancelled >>

\* what a transaction cancelled during session.commit leaves of its rows
CancelledCommit(staged) == { {}, staged }

\* CancelledError raised at task t's suspension.  In the sleep of _poll_loop it
\* is caught and the loop breaks; anywhere else no handler catches it (it is no
\* Exception) and it ends the task, the open session being closed on the way:
\* an uncommitted batch is rolled back, a commit in flight may have been
\* applied or not.
Cancel(t) ==
    /\ t \in cancelled
    /\ Alive(t)
    /\ cancelled' = cancelled \ { t }
    /\ LET l == proc[t]
           f == FeedOf(l)
       IN  /\ proc' = [ proc EXCEPT ![t] =
                  [ Local0 EXCEPT !.pc = "done", !.cycles = l.cycles,
                                  !.report = l.report, !.began = l.began,
                                  !.cut = l.pc ] ]
           /\ IF l.pc = "commit"
              THEN \E kept \in CancelledCommit(l.staged) :
                      db' = [ db EXCEPT ![TableOf(f)] = @ \cup kept ]
              ELSE db' = db
           /\ IF l.pc = "meta"
              THEN \/ UNCHANGED << meta, calls >>
                   \/ /\ meta' = [ meta EXCEPT ![f] =
                             Some(UpsertIngestMeta(meta[f], clock, "ok", l.entity_count,
                                                   l.feed_hash, NoText)) ]
                      /\ calls' = [ calls EXCEPT ![f] = MetaCalled(@, clock, "ok", NoText) ]
              ELSE IF l.pc = "errmeta"
              THEN \/ UNCHANGED << meta, calls >>
                   \/ /\ meta' = [ meta EXCEPT ![f] =
                             Some(UpsertIngestMeta(meta[f], clock, "error", 0, "", l.exc)) ]
                      /\ calls' = [ calls EXCEPT ![f] = MetaCalled(@, clock, "error", l.exc) ]
              ELSE UNCHANGED << meta, calls >>
    /\ UNCHANGED << env, calc, mvars, clock, running, task, poll_count, last_poll_at, stopping, op >>

\* _poll_loop: the task runs for the first time, or its sleep has elapsed;
\* `while self._running` then begins a cycle (which may raise before its first
\* feed, into `except Exception`) or ends the loop
PollLoop(t) ==
    /\ proc[t].pc \in { "new", "sleep" }
    /\ t \notin cancelled
    /\ IF running
       THEN /\ proc[t].cycles < env.polls
            /\ poll_count' = poll_count + 1
            /\ last_poll_at' = Some(clock)
            /\ \/ proc' = [ proc EXCEPT ![t] = BeginCycle(@) ]
               \/ /\ env.cycle_faults
                  /\ proc[t].cycles + 1 < env.polls
                  /\ proc' = [ proc EXCEPT ![t] =
                         CycleRaised([ @ EXCEPT !.cycles = @ + 1, !.began = {} ], t) ]
       ELSE /\ proc' = [ proc EXCEPT ![t] = [ @ EXCEPT !.pc = "done" ] ]
            /\ UNCHANGED << poll_count, last_poll_at >>
    /\ UNCHANGED << env, calc, mvars, dbvars, running, task, cancelled, stopping, op >>

(***************************************************************************)
(* Specification of the worker's life: start() and stop() called in any    *)
(* order, also while an earlier stop() is suspended, with the polling      *)
(* tasks they create and cancel.                                           *)
(***************************************************************************)
LifeEnv ==
    [ served |-> [ f \in FeedTypes |->
                     CASE f = FEED_TRIP_UPDATES ->
                            { Body("tu2", TsFresh,
                                   << TripUpdate("T1", 0,
                                          << Stu("S1", 1, None), Stu("S2", 2, None),
                                             Stu("S3", 3, None) >>) >>) }
                       [] f = FEED_VEHICLE_POSITIONS -> { Garbage }
                       [] OTHER -> { HttpError } ],
      faults |-> [ f \in FeedTypes |-> {} ],
      db_errors |-> {},
      cycle_faults |-> TRUE, polls |-> MaxPolls, tasks |-> MaxTasks, tick |-> 0 ]

InitLife == InitState(LifeEnv)

NextLife ==
    \/ Start
    \/ Stop
    \/ \E t \in TaskIds : StopReturn(t)
    \/ \E t \in TaskIds : Cancel(t)
    \/ \E t \in TaskIds : PollLoop(t)
    \/ \E t \in TaskIds : Fetch(t)
    \/ \E t \in TaskIds : Backoff(t)
    \/ \E t \in TaskIds : Exec(t)
    \/ \E t \in TaskIds : Commit(t)
    \/ \E t \in TaskIds : Meta(t)
    \/ \E t \in TaskIds : ErrMeta(t)

SpecLife == InitLife /\ [][NextLife]_vars

\* The event loop runs every task that is ready: a task whose sleep elapsed
\* or that is new gets its turn, and a requested cancellation is delivered.
FairLife ==
    /\ SpecLife
    /\ \A t \in TaskIds : WF_vars(PollLoop(t))
    /\ \A t \in TaskIds : WF_vars(Cancel(t))

(***************************************************************************)
(* Properties of a poll cycle.                                             *)
(***************************************************************************)
\* run_once has returned its report to p's caller
CycleOver(p) == proc[p].pc \in { "returned", "sleep" } /\ proc[p].began # {}

Entry(p, g) == Val(proc[p].report[g])

\* every normalized row of feed g has its dedup key in g's table
RowsStored(p, g) ==
    \A r \in proc[p].norm[g] :
        \E s \in db[TableOf(g)] :
            ConflictKey(TableOf(g), s.row) = ConflictKey(TableOf(g), r)

\* C1: when run_once returns, every feed type was ingested and reported, its
\* status is "ok" exactly when none of its own stages failed, whatever happened
\* to the other two, and the rows of a feed whose stages all succeeded are stored.
C1_FeedIsolation ==
    \A p \in Procs : CycleOver(p) =>
        \A g \in FeedTypes :
            /\ g \in proc[p].began
            /\ ~IsNone(proc[p].report[g])
            /\ Entry(p, g).status = (IF proc[p].failed[g] = {} THEN "ok" ELSE "error")
            /\ proc[p].failed[g] = {} => RowsStored(p, g)

\* the trip_updates fetch failed, the other two feeds succeeded and stored rows
C1_Witness ==
    /\ proc[API].pc = "returned"
    /\ proc[API].failed = [ f \in FeedTypes |->
                              IF f = FEED_TRIP_UPDATES THEN { "fetch" } ELSE {} ]
    /\ Entry(API, FEED_TRIP_UPDATES).status = "error"
    /\ Entry(API, FEED_VEHICLE_POSITIONS).status = "ok"
    /\ Entry(API, FEED_SERVICE_ALERTS).status = "ok"
    /\ db["rt_trip_updates"] = {}
    /\ db["rt_vehicle_positions"] # {}
    /\ Cardinality(db["rt_alerts"]) = 3

\* C4: run_once never raises; its report has an entry for each feed type, "ok"
\* with error None exactly when no stage of that feed failed, and otherwise
\* "error" with the text of the exception that was raised.
C4_ReportNeverRaises ==
    \A p \in Procs :
        /\ proc[p].pc # "raised"
        /\ CycleOver(p) =>
              \A g \in FeedTypes :
                  /\ ~IsNone(proc[p].report[g])
                  /\ proc[p].failed[g] = {} =>
                        Entry(p, g).status = "ok" /\ Entry(p, g).error = None
                  /\ proc[p].failed[g] # {} =>
                        /\ Entry(p, g).status = "error"
                        /\ Entry(p, g).error = proc[p].thrown[g]
                        /\ Entry(p, g).error # None

\* a cycle in which one feed failed to write, one failed its meta update after
\* its rows were written and one succeeded
C4_Witness ==
    /\ proc[API].pc = "returned"
    /\ proc[API].failed[FEED_TRIP_UPDATES] = { "write" }
    /\ proc[API].failed[FEED_VEHICLE_POSITIONS] = { "meta" }
    /\ proc[API].failed[FEED_SERVICE_ALERTS] = {}
    /\ Entry(API, FEED_TRIP_UPDATES).error = Some(DbErrorLong)
    /\ Entry(API, FEED_VEHICLE_POSITIONS).status = "error"
    /\ Entry(API, FEED_SERVICE_ALERTS).error = None
    /\ IsNone(meta[FEED_VEHICLE_POSITIONS])

(***************************************************************************)
(* Properties of repeated writes and of the rt_ingest_meta row.            *)
(***************************************************************************)
\* C2: no raw table ever holds two rows with the same dedup key, whether the
\* key came twice in one batch, in two batches or in two polls; and when
\* _batch_insert returns, the number it returns is the number of rows the
\* table has gained since the call began.
C2_DuplicateWritesStoreNothing ==
    /\ \A x \in Tables : \A s, u \in db[x] :
           ConflictKey(x, s.row) = ConflictKey(x, u.row) => s = u
    /\ ( proc[API].pc = "meta" /\ proc[API].rows # << >> )
           => LET x == TableOf(FeedOf(proc[API]))
              IN  /\ proc[API].result.rows_written = Cardinality(db[x]) - proc[API].size0
                  /\ Cardinality(db[x]) =
                        Cardinality({ ConflictKey(x, s.row) : s \in db[x] })
                  /\ \A i \in 1..Len(proc[API].rows) :
                        \E s \in db[x] :
                            ConflictKey(x, s.row) = ConflictKey(x, proc[API].rows[i])

\* C2 witness: a later poll has written again the four trip-update rows of an
\* earlier poll, three of them with one key; the write returned 0 and the
\* table still holds the two rows of the first write.
C2_Witness ==
    /\ proc[API].pc = "meta"
    /\ proc[API].cycles > 1
    /\ FeedOf(proc[API]) = FEED_TRIP_UPDATES
    /\ Len(proc[API].rows) = 4
    /\ proc[API].result.rows_written = 0
    /\ proc[API].size0 = 2
    /\ Cardinality(db[TableOf(FEED_TRIP_UPDATES)]) = 2

MetaRowAgrees(f, text) ==
    IF IsNone(calls[f]) THEN IsNone(meta[f])
    ELSE /\ ~IsNone(meta[f])
         /\ Val(meta[f]).last_success_at = Val(calls[f]).last_ok
         /\ Val(meta[f]).last_attempt_at = Some(Val(calls[f]).at)
         /\ Val(meta[f]).status = Val(calls[f]).status
         /\ Val(meta[f]).error_message = text

\* C5: after any sequence of update_ingest_meta calls, the feed type's row
\* has last_success_at equal to the time of the last "ok" call (null when
\* there was none), and last_attempt_at, status and error_message equal to
\* the last call's values.
C5_MetaRowIsLastCall ==
    \A f \in FeedTypes :
        MetaRowAgrees(f, IF IsNone(calls[f]) THEN NoText ELSE Val(calls[f]).error_message)

\* C5, amended: as above, but error_message holds the first 500 characters of
\* the last call's text.
C5_MetaRowIsLastCallCut ==
    \A f \in FeedTypes :
        MetaRowAgrees(f, IF IsNone(calls[f]) THEN NoText
                         ELSE Truncate(Val(calls[f]).error_message))

\* C5 witness: an "error" call with a text longer than 500 characters came
\* after an "ok" call; the row keeps the time of the "ok" call and a text of
\* 500 characters.
C5_Witness ==
    LET f == FEED_TRIP_UPDATES
    IN  /\ ~IsNone(calls[f])
        /\ Val(calls[f]).status = "error"
        /\ Val(calls[f]).error_message.len > ErrMsgLimit
        /\ ~IsNone(Val(calls[f]).last_ok)
        /\ Val(meta[f]).last_success_at = Val(calls[f]).last_ok
        /\ Val(meta[f]).last_attempt_at # Val(meta[f]).last_success_at
        /\ Val(meta[f]).error_message.len = ErrMsgLimit

(***************************************************************************)
(* Properties of matching runs.                                            *)
(***************************************************************************)
\* C3: a matching run with the parameters of the run before it, over the
\* same rt_trip_updates and stop_times, leaves matched_arrivals with the rows
\* it had when the run began; and matched_arrivals never holds two rows with
\* the same (trip_id, stop_id, stop_sequence, service_date).
C3_RerunLeavesMatchedArrivals ==
    /\ ( /\ match.pc = "idle"
         /\ match.runs >= 2
         /\ match.history[match.runs] = match.history[match.runs - 1] )
           => matched_arrivals.rows = match.before
    /\ \A a, b \in matched_arrivals.rows :
           MatchedKey(a.row) = MatchedKey(b.row) => a = b

\* C3 witness: a second run with the first run's parameters has returned; it
\* dropped a duplicate update and sent more rows to matched_arrivals than the
\* table holds, two updates having the same matched key.
C3_Witness ==
    /\ match.pc = "idle"
    /\ match.runs = 2
    /\ match.history[2] = match.history[1]
    /\ match.report.deduped_count > 0
    /\ matched_arrivals.rows # {}
    /\ Cardinality(matched_arrivals.rows) <
          match.report.matched_count + match.report.ambiguous_count
              + match.report.unmatched_count
    /\ matched_arrivals.last_id > 2 * Cardinality(matched_arrivals.rows)

(***************************************************************************)
(* Properties of start(), stop() and the polling loop.                     *)
(***************************************************************************)
\* a step of a start() or stop() call
Call(kinds) == op'.seq # op.seq /\ op'.call \in kinds

StartCalls == { "start", "start_ignored" }
StopCalls == { "stop_ignored", "stop_waits", "stop_no_task" }
Born == { t \in TaskIds : proc[t].pc # "unborn" }

\* the rows of the batch task t is writing
BatchInProgress(t) == Range(BatchAt(proc[t].rows, proc[t].batch_start))

\* the rows are stored in the table of the feed task t is ingesting
BatchStored(t, rows) ==
    \A r \in rows :
        \E s \in db'[TableOf(FeedOf(proc[t]))] :
            ConflictKey(TableOf(FeedOf(proc[t])), s) = ConflictKey(TableOf(FeedOf(proc[t])), r)

\* C6: once a stop() called on a running worker has returned, and the worker
\* has not been started again and no other stop() is under way, no polling
\* task is alive.
C6_StopTerminatesPolling ==
    ( op.call \in { "stop_returned", "stop_no_task" } /\ ~running /\ stopping = {} )
        => \A t \in TaskIds : ~Alive(t)

\* C7: a polling task that stop() cancels inside a batch write (INSERT issued,
\* commit not returned) does not end before that batch is committed.
C7_BatchSurvivesStop ==
    [][ \A t \in TaskIds :
          ( /\ t \in cancelled
            /\ proc[t].pc \in { "exec", "commit" }
            /\ proc'[t].pc = "done" )
          => BatchStored(t, BatchInProgress(t)) ]_vars

\* C8: start() on a running worker changes nothing and creates no task;
\* stop() on a stopped worker changes nothing; start() on a stopped worker
\* sets is_running and creates one new polling task, also after a stop();
\* stop() on a running worker clears is_running; a polling task is created
\* by nothing else.
C8_StartStopToggle ==
    [][ /\ ( Call(StartCalls) /\ running )
            => op'.call = "start_ignored" /\ UNCHANGED << dbvars, wvars >>
        /\ ( Call(StartCalls) /\ ~running )
            => /\ op'.call = "start"
               /\ running'
               /\ task' \in TaskIds \ Born
               /\ Born' = Born \cup { task' }
               /\ proc'[task'].pc = "new"
        /\ ( Call(StopCalls) /\ ~running )
            => op'.call = "stop_ignored" /\ UNCHANGED << dbvars, wvars >>
        /\ ( Call(StopCalls) /\ running )
            => op'.call # "stop_ignored" /\ ~running'
        /\ ( Born' # Born ) => Call({ "start" }) ]_vars

\* C8 witness: the worker was started, stopped and started again, and a
\* further start() was then ignored.
C8_Witness ==
    /\ op.call = "start_ignored"
    /\ running
    /\ task = 2
    /\ proc[1].pc = "done"
    /\ Alive(2)

\* C9: a stop() called on a running worker requests the cancellation of every
\* polling task that is suspended in the inter-cycle sleep or in a fetch
\* backoff sleep.
C9_StopCancelsSleep ==
    [][ ( Call(StopCalls) /\ running )
        => \A t \in TaskIds :
              proc[t].pc \in { "sleep", "backoff" } => t \in cancelled' ]_vars

\* C10: an exception raised out of a poll cycle leaves the polling task in
\* its inter-cycle sleep and the worker running; a polling task ends only
\* when the worker is stopped; and from that sleep the task begins a next
\* cycle unless it has ended.
C10_LoopSurvivesCycleError ==
    /\ [][ \A t \in TaskIds :
             /\ ( proc'[t].crashed /\ ~proc[t].crashed )
                 => proc'[t].pc = "sleep" /\ running' = running /\ running
             /\ ( proc'[t].pc = "done" /\ proc[t].pc # "done" )
                 => ~running \/ t \in cancelled ]_vars
    /\ \A t \in TaskIds :
          ( proc[t].crashed /\ proc[t].pc = "sleep" )
              ~> ( proc[t].pc = "done" \/ proc[t].recovered )

\* C10 witness: a polling task whose cycle raised is in a later cycle, the
\* worker never having been stopped.
C10_Witness ==
    /\ proc[1].recovered
    /\ InCycle(proc[1])
    /\ running
    /\ op.call = "start"
    /\ task = 1

(***************************************************************************)
(* Properties of the fetcher.                                              *)
(***************************************************************************)
Fetching(l) == l.pc \in { "fetch", "backoff" }

\* fetch returned a body to _ingest_feed, which has not returned yet
FetchReturned(l) ==
    InCycle(l) /\ ~Fetching(l) /\ "fetch" \notin l.failed[FeedOf(l)]

\* fetch raised to _ingest_feed, which has not returned yet
FetchRaised(l) == InCycle(l) /\ "fetch" \in l.failed[FeedOf(l)]

\* an attempt that got a status error, no response, or a body of length zero
AttemptFailed(a) == a.http # "ok" \/ a.size = 0

EmptyAnswer(a) == a.http = "ok" /\ a.size = 0

\* the attempts of the feed under way, their number, and their bookkeeping
AttemptsBounded ==
    LET l == proc[API]
        n == Len(l.tries)
    IN  InCycle(l) =>
          /\ n <= MaxRetries
          /\ \A i \in 1 .. n - 1 : AttemptFailed(l.tries[i])
          /\ Fetching(l) => \A i \in 1 .. n : AttemptFailed(l.tries[i])
          /\ FetchReturned(l) =>
                /\ n >= 1
                /\ ~AttemptFailed(l.tries[n])
                /\ IsNone(l.cause[FeedOf(l)])
                /\ "decode" \notin l.failed[FeedOf(l)] => l.feed_hash = l.tries[n].hash
          /\ FetchRaised(l) =>
                /\ n = MaxRetries
                /\ AttemptFailed(l.tries[n])
                /\ l.thrown[FeedOf(l)] = Some(FeedFetchError)
                /\ l.cause[FeedOf(l)] = Some(ErrorOf(l.tries[n]))
                /\ l.failed[FeedOf(l)] \subseteq { "fetch", "errmeta" }

\* C11: fetch makes at most max_retries attempts, returns the body and hash of
\* the first attempt that succeeds and makes no attempt after it; when every
\* attempt fails it raises one FeedFetchError whose cause is the error of the
\* last attempt; and no step of fetch changes a table or the meta row.
C11_FetchRetries ==
    /\ []AttemptsBounded
    /\ [][ Fetching(proc[API]) => db' = db /\ meta' = meta ]_vars

\* all attempts failed, the first on a status error and the last on an empty
\* body, which is the cause of the FeedFetchError
C11_Witness ==
    /\ FetchRaised(proc[API])
    /\ FeedOf(proc[API]) = FEED_TRIP_UPDATES
    /\ Len(proc[API].tries) = MaxRetries
    /\ ErrorOf(proc[API].tries[1]) = "HTTPStatusError"
    /\ proc[API].cause[FEED_TRIP_UPDATES] = Some("FeedFetchError")

\* C12: an attempt answered with an empty body is a failed attempt: another
\* attempt follows it, or it was the last one allowed and fetch raised
\* FeedFetchError because of it; a feed whose last answer was an empty body is
\* not decoded, not normalized, stores no row and is not recorded as "ok".
C12_EmptyBodyIsFailure ==
    LET l == proc[API]
        n == Len(l.tries)
    IN  /\ InCycle(l) =>
             \A i \in 1 .. n : EmptyAnswer(l.tries[i]) =>
                 \/ i < n
                 \/ Fetching(l) /\ i < MaxRetries
                 \/ /\ i = MaxRetries
                    /\ FetchRaised(l)
                    /\ l.cause[FeedOf(l)] = Some("FeedFetchError")
        /\ \A g \in FeedTypes :
             (g \in l.began /\ ~IsNone(l.answer[g]) /\ EmptyAnswer(Val(l.answer[g]))
                /\ ~(Fetching(l) /\ FeedOf(l) = g)) =>
                 /\ "fetch" \in l.failed[g]
                 /\ l.failed[g] \cap { "decode", "normalize", "write", "meta" } = {}
                 /\ l.norm[g] = {}
                 /\ db[TableOf(g)] = {}
                 /\ IsNone(meta[g]) \/ Val(meta[g]).status = "error"
                 /\ CycleOver(API) =>
                       /\ Entry(API, g).status = "error"
                       /\ Entry(API, g).entity_count = 0
                       /\ Entry(API, g).rows_written = 0
                       /\ Entry(API, g).error = Some(FeedFetchError)

\* the cycle is over; trip_updates ended on an empty body and is an error with
\* nothing stored, vehicle_positions was ingested
C12_Witness ==
    /\ proc[API].pc = "returned"
    /\ proc[API].answer[FEED_TRIP_UPDATES] = Some(Answer(EmptyBody))
    /\ Entry(API, FEED_TRIP_UPDATES).status = "error"
    /\ Val(meta[FEED_TRIP_UPDATES]).status = "error"
    /\ Entry(API, FEED_VEHICLE_POSITIONS).status = "ok"

\* C13: the k-th sleep of a fetch lasts backoff_base^k seconds; there is one
\* sleep after each failed attempt that another attempt follows, and none
\* after the attempt that ends the fetch.
C13_BackoffDelays ==
    LET l == proc[API]
        n == Len(l.tries)
    IN  InCycle(l) =>
          /\ \A k \in 1 .. Len(l.sleeps) : l.sleeps[k] = BackoffBase ^ k
          /\ Len(l.sleeps) = (IF Fetching(l) \/ n = 0 THEN n ELSE n - 1)
          /\ l.pc = "backoff" => l.delay = l.sleeps[n] /\ l.attempt = n - 1
          /\ l.pc = "fetch" => l.attempt = n

\* the third attempt succeeded, after sleeps of backoff_base and backoff_base^2
C13_Witness ==
    /\ FetchReturned(proc[API])
    /\ Len(proc[API].tries) = 3
    /\ proc[API].sleeps = << BackoffBase, BackoffBase * BackoffBase >>

(***************************************************************************)
(* Properties of the writer.                                               *)
(***************************************************************************)
\* the dedup keys of rows[from .. to]
KeysOf(table, rows, from, to) ==
    { ConflictKey(table, rows[i]) : i \in from .. Min(to, Len(rows)) }

StoredKeys(table) == { ConflictKey(table, s.row) : s \in db[table] }

\* _batch_insert raised for the feed under way
WriteFailed(l) == InCycle(l) /\ "write" \in l.failed[FeedOf(l)]

\* C14: when the execute or the commit of the batch at batch_start fails, the
\* table holds the rows of the batches before it and nothing of the failed
\* batch or of a later one, the database error is what _ingest_feed caught,
\* and the writer is not entered again for that feed.
C14_FailedBatchRolledBack ==
    LET l == proc[API]
        table == TableOf(FeedOf(l))
    IN  WriteFailed(l) =>
          /\ l.pc = "errmeta"
          /\ l.staged = {}
          /\ l.thrown[FeedOf(l)] \in { Some(e) : e \in env.db_errors }
          /\ StoredKeys(table) = KeysOf(table, l.rows, 1, l.batch_start)
          /\ Cardinality(db[table]) = Cardinality(StoredKeys(table))
          /\ l.result.status = "error" /\ l.result.rows_written = 0

\* the commit or execute of the third batch failed: the four rows of the first
\* two batches are stored, the fifth row is not
C14_Witness ==
    /\ WriteFailed(proc[API])
    /\ FeedOf(proc[API]) = FEED_TRIP_UPDATES
    /\ proc[API].batch_start = 2 * BatchSize
    /\ Len(proc[API].rows) > 2 * BatchSize
    /\ Cardinality(db["rt_trip_updates"]) = 2 * BatchSize
    /\ ConflictKey("rt_trip_updates", proc[API].rows[2 * BatchSize + 1])
           \notin StoredKeys("rt_trip_updates")

(***************************************************************************)
(* Properties of the staleness check.                                      *)
(***************************************************************************)
\* the response of feed g's endpoint that the last attempt got
Fetched(g) ==
    CHOOSE r \in env.served[g] : Answer(r) = Val(proc[API].answer[g])

FeedMessage(r) == [ timestamp |-> r.timestamp, entity |-> r.entity ]

\* when fetch returns a feed that decodes, `stale` is TRUE exactly for a
\* non-zero header timestamp more than the threshold behind the clock, and the
\* rows handed to the writer are the feed's normalized rows either way
StaleJudged ==
    LET l == proc[API]
        g == FeedOf(l)
    IN  (l.pc = "fetch" /\ proc'[API].pc \in { "exec", "meta" }) =>
            LET r == Fetched(g)'
            IN  /\ proc'[API].result.stale =
                       (r.timestamp # 0 /\ clock - r.timestamp > StaleThreshold)
                /\ proc'[API].rows = NormalizeFeed(g, FeedMessage(r))
                /\ proc'[API].pc = (IF proc'[API].rows = << >> THEN "meta" ELSE "exec")

\* when run_once returns, a feed that was fetched, decoded and normalized has
\* its normalized rows on record and, when none of its steps failed, stored,
\* with status "ok" and the row count reported, stale or not
StaleWritten ==
    CycleOver(API) =>
        \A g \in FeedTypes :
            (~IsNone(proc[API].answer[g])
                /\ proc[API].failed[g] \cap { "fetch", "decode", "normalize" } = {}) =>
                /\ proc[API].norm[g] = Range(NormalizeFeed(g, FeedMessage(Fetched(g))))
                /\ Entry(API, g).entity_count = Len(Fetched(g).entity)
                /\ proc[API].failed[g] = {} =>
                      /\ Entry(API, g).status = "ok"
                      /\ Entry(API, g).error = None
                      /\ RowsStored(API, g)
                      /\ Val(meta[g]).status = "ok"
                      /\ Val(meta[g]).feed_hash = Fetched(g).hash
                /\ Entry(API, g).stale => Fetched(g).timestamp # 0

\* C15: a feed whose non-zero header timestamp is older than the staleness
\* threshold is reported stale and is normalized and written like any other
\* feed, with status "ok" when those steps succeed; a feed within the
\* threshold is reported not stale.
C15_StaleStillWritten == []StaleWritten /\ [][StaleJudged]_vars

\* the second poll found the feed with the recent timestamp stale and finished
\* "ok" with the feed's three rows stored; the vehicle feed was stale and
\* written too
C15_Witness ==
    /\ proc[API].pc = "returned"
    /\ proc[API].cycles = 2
    /\ Fetched(FEED_TRIP_UPDATES).hash = "tu_recent"
    /\ Entry(API, FEED_TRIP_UPDATES).stale
    /\ Entry(API, FEED_TRIP_UPDATES).status = "ok"
    /\ Cardinality(db["rt_trip_updates"]) = 3
    /\ Entry(API, FEED_VEHICLE_POSITIONS).stale
    /\ Entry(API, FEED_VEHICLE_POSITIONS).status = "ok"
    /\ db["rt_vehicle_positions"] # {}

(***************************************************************************)
(* Properties of the functions of matching/engine.py.                      *)
(***************************************************************************)
\* the rows of a list that have row's trip, stop and stop sequence
SameUpdate(rows, row) ==
    { i \in 1..Len(rows) : /\ rows[i].trip_id = row.trip_id
                           /\ rows[i].stop_id = row.stop_id
                           /\ rows[i].stop_sequence = row.stop_sequence }

\* C16: dedup_rt_updates returns, for each (trip_id, stop_id, stop_sequence) of
\* its input, one row: an input row of that key whose feed_timestamp no input
\* row of the key exceeds; it returns nothing else, and dedup_count is the
\* number of input rows less the number of distinct keys.
C16_DedupKeepsLatest ==
    calc.fn = "dedup_rt_updates" =>
        LET rows == env.rows
            out == calc.result.deduped
        IN  /\ \A i \in 1..Len(rows) :
                   /\ Cardinality(SameUpdate(out, rows[i])) = 1
                   /\ \A j \in SameUpdate(out, rows[i]) :
                          out[j].feed_timestamp >= rows[i].feed_timestamp
            /\ \A j \in 1..Len(out) : \E i \in 1..Len(rows) : out[j] = rows[i]
            /\ calc.result.dedup_count
                   = Len(rows) - Cardinality({ SameUpdate(rows, rows[i]) : i \in 1..Len(rows) })

\* three rows of one key with timestamps T2, T3, T1 in this order: the T3 row
\* is returned and two rows are dropped
C16_Witness ==
    /\ calc.fn = "dedup_rt_updates"
    /\ env.rows = << RtRow(1, "S1", 1, TsFresh), RtRow(2, "S1", 1, Clock0),
                     RtRow(3, "S1", 1, TsOld) >>
    /\ calc.result = [ deduped |-> << RtRow(2, "S1", 1, Clock0) >>, dedup_count |-> 2 ]

\* the stop_times entries of an update's (trip_id, stop_id)
ScheduleEntries(row) ==
    { t \in stop_times : t.trip_id = row.trip_id /\ t.stop_id = row.stop_id }

\* c ten-thousandths is 1/n rounded to four decimals
IsOneOver(n, c) == 2 * n * c >= 20000 - n /\ 2 * n * c <= 20000 + n

\* C17: an update with trip_id and stop_id yields one row; with n the number
\* of schedule candidates considered (the entries of its trip and stop, at
\* most max_candidates of them), n = 0 gives "unmatched", 0.0, and the feed
\* timestamp as service date and scheduled time; n = 1 gives "matched", 1.0;
\* n >= 2 gives "ambiguous", 1/n, or in strict mode "unmatched", 0.0.
C17_ClassifiedByCount ==
    (calc.fn = "_match_single" /\ env.rt_row.trip_id # "" /\ env.rt_row.stop_id # "") =>
        /\ ~IsNone(calc.result)
        /\ LET row == Val(calc.result)
               n == Min(Cardinality(ScheduleEntries(env.rt_row)), env.params.max_candidates)
           IN  /\ row.trip_id = env.rt_row.trip_id /\ row.stop_id = env.rt_row.stop_id
               /\ n = 0 => /\ row.match_status = "unmatched"
                           /\ row.match_confidence = 0
                           /\ row.service_date = DateOf(env.rt_row.feed_timestamp)
                           /\ row.scheduled_ts = env.rt_row.feed_timestamp
               /\ n = 1 => row.match_status = "matched" /\ row.match_confidence = 10000
               /\ (n >= 2 /\ ~env.params.strict_mode) =>
                      /\ row.match_status = "ambiguous"
                      /\ IsOneOver(n, row.match_confidence)
               /\ (n >= 2 /\ env.params.strict_mode) =>
                      row.match_status = "unmatched" /\ row.match_confidence = 0

\* strict mode, three candidates of which one has the update's stop sequence:
\* the row is unmatched with confidence 0.0
C17_Witness ==
    /\ calc.fn = "_match_single"
    /\ env.params.strict_mode
    /\ env.params.max_candidates = 5
    /\ Cardinality(ScheduleEntries(env.rt_row)) = 3
    /\ env.rt_row.stop_sequence = 5
    /\ Val(calc.result).stop_sequence = 5
    /\ Val(calc.result).match_status = "unmatched"
    /\ Val(calc.result).match_confidence = 0

\* C18: a matching batch in strict mode stores no row as "matched" or with a
\* confidence above 0.0 for an update whose (trip_id, stop_id) has two or more
\* entries in stop_times.
C18_StrictNeverConfident ==
    [][ (match.pc = "batch" /\ Val(match.params).strict_mode) =>
            \A m \in matched_arrivals'.rows \ matched_arrivals.rows :
                Cardinality(ScheduleEntries(m.row)) >= 2 =>
                    m.row.match_status # "matched" /\ m.row.match_confidence = 0 ]_vars

\* C19: the service date is the UTC date of the feed timestamp when the
\* scheduled arrival is before 86400 s and the day before it from 86400 s on;
\* the scheduled time is midnight UTC of the service date plus the scheduled
\* arrival.
C19_ServiceDate ==
    calc.fn = "compute_scheduled_ts" =>
        LET day == env.feed_ts \div 86400
            service_date == IF env.sched_arrival_sec < 86400 THEN day ELSE day - 1
        IN  /\ calc.result.service_date = service_date
            /\ calc.result.scheduled_ts = service_date * 86400 + env.sched_arrival_sec

\* 25:30:00 seen in a feed of 2026-02-07T01:30:00Z: service date 2026-02-06,
\* scheduled at 2026-02-07T01:30:00Z
C19_Witness ==
    /\ calc.fn = "compute_scheduled_ts"
    /\ env.sched_arrival_sec = 91800
    /\ env.feed_ts = 1770427800
    /\ calc.result = [ service_date |-> 20490, scheduled_ts |-> 1770427800 ]

\* the observed time when an arrival time counts as given under `given`
ObservedIs(given) ==
    calc.fn = "compute_observed_ts" =>
        calc.result.observed_ts =
            (IF given THEN Val(env.arrival_time)
             ELSE IF env.arrival_delay # None
                  THEN calc.result.scheduled_ts + Val(env.arrival_delay)
                  ELSE env.feed_ts)

C21_DelayIsDifference ==
    \A m \in matched_arrivals.rows :
        m.row.delay_sec = m.row.observed_ts - m.row.scheduled_ts

\* the batch _process_batch is about to take
BatchUnderWay ==
    SubSeq(match.deduped, match.i + 1,
           Min(match.i + Val(match.params).batch_size, Len(match.deduped)))

\* the update fails to match: an id is missing, or matching it raises
FailsToMatch(rt_row) == rt_row.trip_id = "" \/ rt_row.stop_id = "" \/ Raises(rt_row)

\* the updates a report counts as matched, unmatched or ambiguous
Outcomes(report) ==
    report.matched_count + report.unmatched_count + report.ambiguous_count

\* C22: each update of a batch that fails to match, for a missing trip_id or
\* stop_id or for an exception, adds one to error_count and nothing to
\* matched_count, unmatched_count and ambiguous_count.
C22_FailureCountsAsError ==
    [][ match.pc = "batch" =>
          LET failed == { k \in 1..Len(BatchUnderWay) : FailsToMatch(BatchUnderWay[k]) }
          IN  /\ match'.report.error_count =
                     match.report.error_count + Cardinality(failed)
              /\ Outcomes(match'.report) =
                     Outcomes(match.report) + Len(BatchUnderWay) - Cardinality(failed)
      ]_vars

\* C23: a batch with updates that fail to match stores no row for them,
\* stores the row of every other update of the batch, counts every update of
\* the batch once, and leaves the run at its next batch or, after the last
\* batch, returned with a report that accounts for every update.
C23_FailureAbortsNothing ==
    [][ match.pc = "batch" =>
          LET batch == BatchUnderWay
              params == Val(match.params)
              trip_ids == { batch[k].trip_id : k \in 1..Len(batch) }
              failed == { k \in 1..Len(batch) : FailsToMatch(batch[k]) }
              Result(k) == Val(_match_single(batch[k], trip_ids, params))
              report == match'.report
          IN  /\ \A k \in failed : \A m \in matched_arrivals'.rows :
                     m.row.rt_trip_update_id # batch[k].id
              /\ \A k \in (1..Len(batch)) \ failed :
                     \E m \in matched_arrivals'.rows :
                        \E j \in (1..Len(batch)) \ failed :
                           /\ MatchedKey(Result(j)) = MatchedKey(Result(k))
                           /\ m.row = Result(j)
              /\ Outcomes(report) + report.error_count =
                     Outcomes(match.report) + match.report.error_count + Len(batch)
              /\ IF match.i + params.batch_size < Len(match.deduped)
                 THEN match'.pc = "batch" /\ match'.i = match.i + params.batch_size
                 ELSE /\ match'.pc = "idle"
                      /\ match'.runs = match.runs + 1
                      /\ report.scanned_count =
                             report.deduped_count + Outcomes(report) + report.error_count
      ]_vars

\* a run over the five updates in batches of two has returned: the first
\* batch began with an update without trip_id, the second with an update whose
\* matching raised, and the update after each has its row
C23_Witness ==
    /\ match.pc = "idle"
    /\ match.runs = 1
    /\ match.history[1].batch_size = 2
    /\ env.raising = { 4 }
    /\ match.report.scanned_count = 5
    /\ match.report.error_count = 1
    /\ { m.row.rt_trip_update_id : m \in matched_arrivals.rows } = { 1, 5 }

\* decode was called, for the first or the second time
Decoded == calc.fn \in { "decode", "decode_again" }

\* an accessor was called on the feed decode returned
Accessed == calc.fn \in { "get_feed_timestamp", "get_entity_count" }

\* what decode and the accessors return for the bytes in hand
DecodesRight ==
    /\ (Decoded /\ env.data.size = 0) =>
           /\ IsNone(calc.result.raised)
           /\ Val(calc.result.feed) = [ timestamp |-> 0, entity |-> << >> ]
    /\ (Accessed /\ env.data.size = 0) => calc.result.value = 0
    /\ (Decoded /\ ~IsNone(calc.result.raised)) =>
           /\ env.data.malformed
           /\ calc.result.raised = Some(DecodeError_)

MetaMatchesReport ==
    CycleOver(API) =>
        \A f \in FeedTypes :
            /\ ~IsNone(meta[f])
            /\ Val(meta[f]).status = Entry(API, f).status

\* the meta update that follows a failed write of rows: the batches before
\* the failed one are stored, the row gets status "error" and `text`, and its
\* last_success_at is what it was (null when there was no row)
FailedWriteRecorded(text) ==
    LET l == proc[API]
        f == FeedOf(l)
        table == TableOf(f)
    IN  (WriteFailed(l) /\ l.pc = "errmeta") =>
            /\ KeysOf(table, l.rows, 1, l.batch_start) \subseteq
                   { ConflictKey(table, s.row) : s \in db'[table] }
            /\ db'[table] = db[table]
            /\ Val(meta'[f]).status = "error"
            /\ Val(meta'[f]).error_message = text
            /\ Val(meta'[f]).last_success_at =
                   (IF IsNone(meta[f]) THEN None ELSE Val(meta[f]).last_success_at)

\* C25: at the end of a poll cycle whose meta writes succeed each feed type
\* has its rt_ingest_meta row with the status the report gives the feed; and
\* when a write of rows fails after earlier batches were committed, those
\* batches stay stored and the meta row gets status "error", the failure's
\* message and the last_success_at it had.
C25_MetaFollowsReport ==
    /\ []MetaMatchesReport
    /\ [][FailedWriteRecorded(proc[API].exc)]_vars

\* C25, amended: as above, but the meta row gets the first 500 characters of
\* the failure's message.
C25_MetaFollowsReportCut ==
    /\ []MetaMatchesReport
    /\ [][FailedWriteRecorded(Truncate(proc[API].exc))]_vars

\* the second poll's write of seven trip-update rows failed in its third
\* batch with a long database error, after a first poll that stored three
\* rows and recorded "ok": the second batch's new row is stored, and the meta
\* row is "error" with 500 characters of text and the first poll's
\* last_success_at
C25_Witness ==
    LET f == FEED_TRIP_UPDATES
    IN  /\ CycleOver(API)
        /\ proc[API].cycles = 2
        /\ "write" \in proc[API].failed[f]
        /\ proc[API].thrown[f] = Some(DbErrorLong)
        /\ Cardinality(proc[API].norm[f]) = 7
        /\ Cardinality(db[TableOf(f)]) = 4
        /\ Entry(API, f).status = "error"
        /\ Val(meta[f]).status = "error"
        /\ Val(meta[f]).error_message.len = ErrMsgLimit
        /\ ~IsNone(Val(meta[f]).last_success_at)
        /\ Val(meta[f]).last_success_at # Val(meta[f]).last_attempt_at

\* the first max_candidates entries of the update's trip and stop, by
\* stop_sequence
FirstEntries(row, max_candidates) ==
    { e \in ScheduleEntries(row) :
        Cardinality({ o \in ScheduleEntries(row) : o.stop_sequence < e.stop_sequence })
            < max_candidates }

\* C26: the row of an update with schedule entries is matched to one of the
\* first max_candidates entries of its trip and stop by stop_sequence: the one
\* with the update's stop_sequence when that is above 0 and among them, else
\* the one with the lowest stop_sequence; the inputs determine the entry.
C26_ChosenAmongFirst ==
    ( /\ calc.fn = "_match_single"
      /\ env.rt_row.trip_id # "" /\ env.rt_row.stop_id # ""
      /\ ScheduleEntries(env.rt_row) # {} ) =>
        LET row == Val(calc.result)
            first == FirstEntries(env.rt_row, env.params.max_candidates)
            exact == { e \in first : /\ env.rt_row.stop_sequence > 0
                                     /\ e.stop_sequence = env.rt_row.stop_sequence }
            lowest == { e \in first : \A o \in first : e.stop_sequence <= o.stop_sequence }
            chosen == IF exact # {} THEN exact ELSE lowest
        IN  /\ Cardinality(chosen) = 1
            /\ \A e \in chosen :
                  /\ row.stop_sequence = e.stop_sequence
                  /\ row.service_date =
                         compute_service_date(env.rt_row.feed_timestamp, e.sched_arrival_sec)
                  /\ row.scheduled_ts =
                         compute_scheduled_ts(row.service_date, e.sched_arrival_sec)

\* the update has stop_sequence 5 and the schedule an entry with it, the
\* third of three; with max_candidates 2 the entry chosen is the first
C26_Witness ==
    /\ calc.fn = "_match_single"
    /\ env.params.max_candidates = 2
    /\ Cardinality(ScheduleEntries(env.rt_row)) = 3
    /\ env.rt_row.stop_sequence = 5
    /\ \E e \in ScheduleEntries(env.rt_row) : e.stop_sequence = 5
    /\ Val(calc.result).stop_sequence = 1

\* the names that stand for a code the enum does not know
UnknownSentinels ==
    { "UNKNOWN", "UNKNOWN_SCHEDULE_RELATIONSHIP", "UNKNOWN_STOP_STATUS",
      "UNKNOWN_STATUS", "UNKNOWN_CAUSE", "UNKNOWN_EFFECT" }

\* C27: a translation of a code outside the enum's lookup table gives an
\* UNKNOWN_* name and never "SCHEDULED"; schedule_relationship 0 gives
\* "SCHEDULED".
C27_UnknownCodeGetsSentinel ==
    calc.fn \in EnumNames =>
        /\ (env.code \notin EnumTable(env.enum)) =>
               calc.result \in UnknownSentinels /\ calc.result # "SCHEDULED"
        /\ (env.enum = "schedule_relationship" /\ env.code = 0) =>
               calc.result = "SCHEDULED"

\* C28: at most one polling task is alive at any time, and none is alive
\* while the worker is not running and no stop() is suspended.
C28_OnePollingLoop ==
    /\ Cardinality({ t \in TaskIds : Alive(t) }) <= 1
    /\ (~running /\ stopping = {}) => \A t \in TaskIds : ~Alive(t)

\* the updates a run with these parameters fetches that have both ids
UpdatesInWindow(params) ==
    { RtDict(s) : s \in { u \in db["rt_trip_updates"] :
          /\ u.row.feed_timestamp >= env.now - params.window_minutes * 60
          /\ u.row.schedule_relationship = "SCHEDULED"
          /\ u.row.trip_id # "" /\ u.row.stop_id # "" } }

\* the key of the matched_arrivals row the update is matched to
ResolvedKey(u, params) == MatchedKey(Val(_match_single(u, { u.trip_id }, params)))

\* C29: after the first matching run on an empty matched_arrivals, no row
\* has a source_feed_ts older than the feed_timestamp of an update in the
\* run's window that is matched to the row's key.
C29_RowCarriesFreshest ==
    (match.pc = "idle" /\ match.runs = 1) =>
        \A m \in matched_arrivals.rows :
            \A u \in UpdatesInWindow(match.history[1]) :
                ResolvedKey(u, match.history[1]) = MatchedKey(m.row)
                    => u.feed_timestamp <= m.row.source_feed_ts

\* C30: when the first poll cycle, on an empty rt_trip_updates, has ingested
\* the trip-updates feed with status "ok", the table holds every row the feed
\* was normalized to.
C30_EveryUpdateStored ==
    ( /\ CycleOver(API)
      /\ proc[API].cycles = 1
      /\ Entry(API, FEED_TRIP_UPDATES).status = "ok" ) =>
        { s.row : s \in db["rt_trip_updates"] } = proc[API].norm[FEED_TRIP_UPDATES]
====
